---- MODULE Spec2Model ----
(***************************************************************************)
(* Verification model of the scotustician ingestion / transformation       *)
(* pipeline.  The repository holds several generations of the same         *)
(* subsystem; each is modelled as its own group of variables and its own   *)
(* specification:                                                          *)
(*                                                                         *)
(*   SpecIncr  src/ingest/helpers.py      incremental filter and store     *)
(*   SpecMain  src/ingest/main.py         enumeration and thread pool      *)
(*   SpecGate  src/ingest/helpers.py      rate gate inside the retry loop  *)
(*   SpecSvcGate src/services/ingest/main.py  retry loop inside the gate   *)
(*   SpecXf    src/transformers/main.py   transform pass and shutdown      *)
(*   SpecSvc   src/services/ingest/main.py  ingest pass with signals       *)
(*                                                                         *)
(* Python strings are sequences of one-character strings, so formatting    *)
(* (f-strings) and parsing (str.split) are computed, not assumed.          *)
(***************************************************************************)
EXTENDS Integers, Sequences, FiniteSets, TLC

(***************************************************************************)
(* Bounds of the model.                                                    *)
(***************************************************************************)
MaxOAs == 2
MaxRuns == 2
MaxCases == 2
MaxThreads == 2
MaxKeys == 2
MaxSvcCases == 1
MaxItems == 4
MaxPasses == 2
MaxTicks == 8
TicksPerSecond == 2
\* the most oral arguments the case entries of a corpus list together
MaxTasks == 3
MaxWords == 5
\* the token limit of a chunk: 8000 in the source, scaled to the texts above
MAX_TOKENS == 8

(***************************************************************************)
(* Python values and strings.                                              *)
(***************************************************************************)
DigitChars == <<"0", "1", "2", "3", "4", "5", "6", "7", "8", "9">>

RECURSIVE StrOfNat(_)
\* str(n) of a non-negative int: its decimal digits
StrOfNat(n) ==
    IF n < 10 THEN <<DigitChars[n + 1]>>
    ELSE StrOfNat(n \div 10) \o <<DigitChars[(n % 10) + 1]>>

\* A JSON value as Python sees it: an int, a str or None (key absent).
PyInt(n) == [t |-> "int", n |-> n, s |-> <<>>]
PyStr(s) == [t |-> "str", n |-> 0, s |-> s]
PyNone == [t |-> "none", n |-> 0, s |-> <<>>]

\* bool(v): 0, "" and None are falsy
Truthy(v) ==
    CASE v.t = "int" -> v.n # 0
      [] v.t = "str" -> v.s # <<>>
      [] OTHER -> FALSE

\* f"{v}"
Format(v) ==
    CASE v.t = "int" -> StrOfNat(v.n)
      [] v.t = "str" -> v.s
      [] OTHER -> <<"N", "o", "n", "e">>

\* ch in s
HasChar(s, ch) == \E i \in 1..Len(s) : s[i] = ch

\* s.startswith(p)
StartsWith(s, p) == Len(s) >= Len(p) /\ SubSeq(s, 1, Len(p)) = p

RECURSIVE SplitFrom(_, _, _, _)
\* str.split(sep) for a one-character sep: cur is the piece being read
SplitFrom(s, sep, i, cur) ==
    IF i > Len(s) THEN <<cur>>
    ELSE IF s[i] = sep THEN <<cur>> \o SplitFrom(s, sep, i + 1, <<>>)
    ELSE SplitFrom(s, sep, i + 1, Append(cur, s[i]))

Split(s, sep) == SplitFrom(s, sep, 1, <<>>)

Last(q) == q[Len(q)]

RawPrefix == <<"r", "a", "w", "/", "o", "a", "/">>
JsonSuffix == <<".", "j", "s", "o", "n">>

\* datetime.now().strftime('%Y%m%d_%H%M%S') of the clock reading c
Timestamp(c) == <<"2", "0", "2", "5", "_">> \o StrOfNat(c)

(***************************************************************************)
(* State.                                                                  *)
(***************************************************************************)
VARIABLES
    \* --- src/ingest/helpers.py: incremental ingest -----------------------
    hListing,    \* case_full['oral_argument_audio'] of the remote case
    hDocket,     \* whether the case carries a docket_number
    hStore,      \* keys of the objects under s3://BUCKET/raw/oa/
    hJunk,       \* number of junk records written
    hClock,      \* wall clock, in seconds
    hRun,        \* number of runs started
    hPhase,      \* position of the current run
    hTs,         \* timestamp string of the current run
    hListOk,     \* whether the store listing of this run succeeded
    hExisting,   \* existing_oa_ids of this run
    hCaseOk,     \* whether process_case of this run read the listing
    hTasks,      \* tasks returned by process_case
    hStats,      \* stats returned by process_case
    hPending,    \* positions in hTasks not yet run by the pool
    hFetched,    \* listing positions whose href was fetched in this run
    hStoredNow,  \* listing positions whose document this run stored
    hStoredBefore, \* listing positions whose document an earlier run stored
    \* --- src/ingest/main.py: enumeration and thread pool ------------------
    mCorpus,     \* remote corpus: term -> list of case entries
    mStore,      \* keys of the objects under s3://BUCKET/raw/oa/
    mJunk,       \* contexts of the junk records the current run wrote
    mClock,      \* wall clock, in seconds
    mRunsLeft,   \* invocations of main still to come
    mPhase,      \* position of main: idle, enum, pool, aborted, done
    mTs,         \* timestamp string of the current run
    mTerm,       \* term being enumerated
    mCases,      \* cases of the current term still to visit
    mCount,      \* cases_total, cases_with_docket, cases_with_oa, cases_skipped
    mTasks,      \* tasks gathered by the enumeration
    mFut,        \* state of the future of each task
    mCompleted,  \* futures finished and not yet yielded by as_completed
    mCollected,  \* futures whose result main has taken
    mUploaded,   \* total_uploaded
    mSummaries,  \* number of summaries written to the store
    mTermLog,    \* term -> how the term loop of this run left it
    mCaseLog,    \* one entry per iteration of `for case in cases` of this run
    \* --- rate gate and retry loop around requests.get ---------------------
    gLayout,     \* "gate_in_retry" (src/ingest) or "retry_in_gate" (src/services)
    gNow,        \* monotonic clock, in ticks
    gLastReset,  \* limits: last_reset
    gNumCalls,   \* limits: num_calls
    gPc,         \* position of each thread inside request(url)
    gAttempt,    \* tenacity attempt_number of each thread
    gWake,       \* tick at which a sleeping thread may go on
    gRefusedIn,  \* start of the period in which the gate last refused the thread
    gOutcomes,   \* results of the GET attempts of each thread, in order
    gAdmits,     \* the last two calls the gate let through: thread, tick, window
    gAdmitted,   \* number of calls of each thread the gate let through
    gGets,       \* number of GET attempts each thread issued
    \* --- src/transformers/main.py: transform pass --------------------------
    xAlias,      \* whether concurrent.futures.TimeoutError is the builtin one
    xStore,      \* keys under the raw prefix
    xProcessed,  \* s3_key values already in transcript_embeddings
    xPc,         \* position of main
    xShutdown,   \* shutdown_requested
    xSignal,     \* number of the signal received, 0 if none
    xPages,      \* keys not yet returned by the paginator
    xKeys,       \* keys gathered by list_s3_keys, then the keys to process
    xNext,       \* position in keys of the next key to submit
    xFut,        \* state of the future of each key
    xYielded,    \* futures the current as_completed call has yielded
    xCompleted,  \* completed_futures
    xCount,      \* processed_count, failed_count, interrupted_count
    xExit,       \* exit status of the process, -1 while it runs
    xGraceExpired, \* graceful_shutdown_executor returned False
    xAtFlag,     \* the futures as they were when the flag was set
    xTouched,    \* keys whose process_key went past its test on entry
    \* --- src/services/ingest/main.py: main and signal_handler --------------
    sLockAttr,   \* whether executor._threads_queues[1] evaluates
    sCorpus,     \* number of cases the API lists for each term
    sPc,         \* position of main
    sShutdown,   \* shutdown_requested
    sSignal,     \* number of the signal received, 0 if none
    sSignalAt,   \* position of main when the signal arrived
    sFetchedAtSignal, \* cases whose records were fetched when the signal arrived
    sLock,       \* whether executor_lock is set
    sTerm,       \* the term of the enumeration loop
    sFut,        \* state of the future of each case
    sActive,     \* active_futures
    sOAs,        \* cases whose records are in all_oral_arguments
    sCounters,   \* total_cases, processed_terms
    sUploads,    \* terms whose record file was uploaded
    sSummaries,  \* summaries written to the store
    sExit,       \* exit status of the process, -1 while it runs
    \* --- src/transformers: process_key on one raw key ----------------------
    pData,       \* the JSON document stored under the key
    pEmbedLen,   \* length of the vectors model.encode returns
    pPc,         \* position of process_key
    pPass,       \* number of times the key was taken up
    pShutdown,   \* shutdown_requested
    pChunks,     \* chunks returned by process_transcript_with_chunking
    pOaText,     \* committed rows of oa_text
    pChunkRows,  \* committed rows of document_chunk_embeddings
    pProcessed,  \* s3_key values in transcript_embeddings
    pJunk,       \* objects under junk/
    pResults,    \* results process_key returned, oldest first
    pAfterFirst, \* the two tables when the first pass returned
    pExcept,     \* whether the except clause tried a junk copy, whether one failed
    \* --- src/transformers/processors.py: batch_process_files -------------
    bAllKeys,    \* keys list_s3_keys returns
    bIndex,      \* AWS_BATCH_JOB_ARRAY_INDEX
    bPc,         \* position of batch_process_files
    bJobKeys,    \* job_keys
    bFut,        \* state of the future of each job key
    bCompleted,  \* futures finished and not yet yielded by as_completed
    bProcessed,  \* processed_files
    bFailed,     \* failed_files
    bCounter,    \* checkpoint_counter
    bCheckpoints, \* the key lists sent as checkpoints
    bMessages,   \* the (key, status) pairs sent as processing messages
    bExit,       \* exit status of the process, -1 while it runs
    \* --- src/transformers/helpers.py: token limit of a section chunk -----
    tText,       \* "\n".join(section_texts) of the section
    tPc,         \* whether the chunk of the section was built
    tChunkText,  \* section_chunk['chunk_text']
    tTokenCount, \* section_chunk['token_count']
    \* --- src/oyez.py ----------------------------------------------------
    oFiles,      \* content of each file under data/: absent, empty, complete
    oExistingFulls, \* existing_case_fulls of check_existing_files
    oExistingOas,   \* existing_oas of check_existing_files
    oPc,         \* position of main
    oNext,       \* position of get_case_fulls in the case summaries
    oTodo,       \* case full files get_oas has not visited yet
    oRun         \* number of the run

hVars == <<hListing, hDocket, hStore, hJunk, hClock, hRun, hPhase, hTs, hListOk,
           hExisting, hCaseOk, hTasks, hStats, hPending, hFetched, hStoredNow,
           hStoredBefore>>

mVars == <<mCorpus, mStore, mJunk, mClock, mRunsLeft, mPhase, mTs, mTerm, mCases,
           mCount, mTasks, mFut, mCompleted, mCollected, mUploaded, mSummaries,
           mTermLog, mCaseLog>>

gVars == <<gLayout, gNow, gLastReset, gNumCalls, gPc, gAttempt, gWake, gRefusedIn,
           gOutcomes, gAdmits, gAdmitted, gGets>>

xVars == <<xAlias, xStore, xProcessed, xPc, xShutdown, xSignal, xPages, xKeys,
           xNext, xFut, xYielded, xCompleted, xCount, xExit, xGraceExpired,
           xAtFlag, xTouched>>

sVars == <<sLockAttr, sCorpus, sPc, sShutdown, sSignal, sSignalAt,
           sFetchedAtSignal, sLock, sTerm,
           sFut, sActive, sOAs, sCounters, sUploads, sSummaries, sExit>>

pVars == <<pData, pEmbedLen, pPc, pPass, pShutdown, pChunks, pOaText, pChunkRows,
           pProcessed, pJunk, pResults, pAfterFirst, pExcept>>

bVars == <<bAllKeys, bIndex, bPc, bJobKeys, bFut, bCompleted, bProcessed, bFailed,
           bCounter, bCheckpoints, bMessages, bExit>>

tVars == <<tText, tPc, tChunkText, tTokenCount>>

oVars == <<oFiles, oExistingFulls, oExistingOas, oPc, oNext, oTodo, oRun>>

vars == <<hVars, mVars, gVars, xVars, sVars, pVars, bVars, tVars, oVars>>

\* the variables each group of actions leaves alone
NotH == <<mVars, gVars, xVars, sVars, pVars, bVars, tVars, oVars>>
NotM == <<hVars, gVars, xVars, sVars, pVars, bVars, tVars, oVars>>
NotG == <<hVars, mVars, xVars, sVars, pVars, bVars, tVars, oVars>>
NotX == <<hVars, mVars, gVars, sVars, pVars, bVars, tVars, oVars>>
NotS == <<hVars, mVars, gVars, xVars, pVars, bVars, tVars, oVars>>
NotP == <<hVars, mVars, gVars, xVars, sVars, bVars, tVars, oVars>>
NotB == <<hVars, mVars, gVars, xVars, sVars, pVars, tVars, oVars>>
NotT == <<hVars, mVars, gVars, xVars, sVars, pVars, bVars, oVars>>
NotO == <<hVars, mVars, gVars, xVars, sVars, pVars, bVars, tVars>>

(***************************************************************************)
(* src/ingest/helpers.py                                                   *)
(***************************************************************************)
DRY_RUN == FALSE

\* ids the remote listing may carry: JSON numbers, JSON strings, or no id
OAEntries ==
    { [id |-> PyInt(42), href |-> TRUE],
      [id |-> PyStr(<<"4", "2">>), href |-> TRUE],
      [id |-> PyStr(<<"7">>), href |-> TRUE],
      [id |-> PyNone, href |-> TRUE],
      [id |-> PyStr(<<"7">>), href |-> FALSE] }

Listings == UNION { [1..n -> OAEntries] : n \in 0..MaxOAs }

\* key = f'raw/oa/{oa_id}_{timestamp}.json'
OAKey(oa_id, timestamp) ==
    RawPrefix \o Format(oa_id) \o <<"_">> \o timestamp \o JsonSuffix

\* oa_id = key.split('/')[-1].split('_')[0]
KeyOAId(key) == PyStr(Split(Last(Split(key, "/")), "_")[1])

\* get_existing_oa_ids, listing completed: ids parsed out of the stored keys
ExistingOAIds(store) ==
    { KeyOAId(key) : key \in { k \in store : StartsWith(k, RawPrefix) /\ HasChar(k, "_") } }

\* x in existing_oa_ids: Python set membership, equality of value and type
PyIn(v, ids) == v \in ids

\* if oa_id and oa_id in existing_oa_ids
IsExisting(oa, existing) == Truthy(oa.id) /\ PyIn(oa.id, existing)

RECURSIVE ProcessCaseTasksFrom(_, _, _)
\* the for loop of process_case from position idx on: the tasks appended
ProcessCaseTasksFrom(oas, existing, idx) ==
    IF idx > Len(oas) THEN <<>>
    ELSE IF IsExisting(oas[idx], existing)
         THEN ProcessCaseTasksFrom(oas, existing, idx + 1)
         ELSE <<[idx |-> idx, oa |-> oas[idx]]>>
              \o ProcessCaseTasksFrom(oas, existing, idx + 1)

\* the same loop without the membership test
UnfilteredTasks(oas, existing) ==
    [i \in 1..Len(oas) |-> [idx |-> i, oa |-> oas[i]]]

ProcessCaseTasks(oas, existing) == ProcessCaseTasksFrom(oas, existing, 1)

RECURSIVE ProcessCaseStatsFrom(_, _, _, _)
ProcessCaseStatsFrom(oas, existing, idx, stats) ==
    IF idx > Len(oas) THEN stats
    ELSE IF IsExisting(oas[idx], existing)
         THEN ProcessCaseStatsFrom(oas, existing, idx + 1,
                  [stats EXCEPT !.checked = @ + 1, !.existing = @ + 1])
         ELSE ProcessCaseStatsFrom(oas, existing, idx + 1,
                  [stats EXCEPT !.checked = @ + 1, !.new = @ + 1])

ZeroStats == [checked |-> 0, existing |-> 0, new |-> 0]

\* the same counters with "new" counted only for entries that carry an id
StatsOfIdentified(oas, existing) ==
    LET fresh == { i \in 1..Len(oas) : ~IsExisting(oas[i], existing) }
    IN [checked |-> Len(oas),
        existing |-> Len(oas) - Cardinality(fresh),
        new |-> Cardinality({ i \in fresh : Truthy(oas[i].id) })]

ProcessCaseStats(oas, existing) == ProcessCaseStatsFrom(oas, existing, 1, ZeroStats)

HInit ==
    /\ hListing \in Listings
    /\ hDocket \in BOOLEAN
    /\ hStore = {}
    /\ hJunk = 0
    /\ hClock = 1
    /\ hRun = 0
    /\ hPhase = "idle"
    /\ hTs = <<>>
    /\ hListOk = TRUE
    /\ hExisting = {}
    /\ hCaseOk = FALSE
    /\ hTasks = <<>>
    /\ hStats = ZeroStats
    /\ hPending = {}
    /\ hFetched = {}
    /\ hStoredNow = {}
    /\ hStoredBefore = {}

\* the values of the group in a specification that does not use it
HOff ==
    /\ hListing = <<>>
    /\ hDocket = FALSE
    /\ hStore = {}
    /\ hJunk = 0
    /\ hClock = 1
    /\ hRun = 0
    /\ hPhase = "idle"
    /\ hTs = <<>>
    /\ hListOk = TRUE
    /\ hExisting = {}
    /\ hCaseOk = FALSE
    /\ hTasks = <<>>
    /\ hStats = ZeroStats
    /\ hPending = {}
    /\ hFetched = {}
    /\ hStoredNow = {}
    /\ hStoredBefore = {}

\* a run starts: timestamp = datetime.now().strftime(...)
HStart ==
    /\ UNCHANGED NotH
    /\ hPhase = "idle"
    /\ hRun < MaxRuns
    /\ \E d \in {0, 1} : /\ hClock' = hClock + d
                         /\ hTs' = Timestamp(hClock + d)
    /\ hRun' = hRun + 1
    /\ hPhase' = "started"
    /\ hStoredBefore' = hStoredBefore \cup hStoredNow
    /\ hStoredNow' = {}
    /\ hFetched' = {}
    /\ hTasks' = <<>>
    /\ hStats' = ZeroStats
    /\ hCaseOk' = FALSE
    /\ hExisting' = {}
    /\ hListOk' = TRUE
    /\ UNCHANGED <<hListing, hDocket, hStore, hJunk, hPending>>

\* get_existing_oa_ids: the paginated listing either completes, or raises
\* part-way and the ids gathered so far are returned
HGetExistingOAIds ==
    /\ UNCHANGED NotH
    /\ hPhase = "started"
    /\ \/ /\ hListOk' = TRUE
          /\ hExisting' = ExistingOAIds(hStore)
       \/ /\ hListOk' = FALSE
          /\ hExisting' \in SUBSET ExistingOAIds(hStore)
    /\ hPhase' = "indexed"
    /\ UNCHANGED <<hListing, hDocket, hStore, hJunk, hClock, hRun, hTs, hCaseOk,
                   hTasks, hStats, hPending, hFetched, hStoredNow, hStoredBefore>>

\* process_case(term, case, timestamp, existing_oa_ids)
HProcessCase ==
    /\ UNCHANGED NotH
    /\ hPhase = "indexed"
    /\ \/ \* no docket number: junk record (or a failed put that is logged),
          \* no tasks
          /\ ~hDocket
          /\ hJunk' \in {hJunk + 1, hJunk}
          /\ hTasks' = <<>>
          /\ hStats' = ZeroStats
          /\ hCaseOk' = FALSE
       \/ \* get_case_full raises after the retries, or returns an empty record
          /\ hDocket
          /\ hTasks' = <<>>
          /\ hStats' = ZeroStats
          /\ hCaseOk' = FALSE
          /\ UNCHANGED hJunk
       \/ \* the full case is read; an empty listing returns early
          /\ hDocket
          /\ hTasks' = ProcessCaseTasks(hListing, hExisting)
          /\ hStats' = ProcessCaseStats(hListing, hExisting)
          /\ hCaseOk' = TRUE
          /\ UNCHANGED hJunk
    /\ hPending' = 1..Len(hTasks')
    /\ hPhase' = "dispatch"
    /\ UNCHANGED <<hListing, hDocket, hStore, hClock, hRun, hTs, hListOk,
                   hExisting, hFetched, hStoredNow, hStoredBefore>>

\* process_oa(term, case, session, oa, timestamp) on one task of the pool
HProcessOa(j) ==
    /\ UNCHANGED NotH
    /\ hPhase = "dispatch"
    /\ j \in hPending
    /\ hPending' = hPending \ {j}
    /\ LET task == hTasks[j]
           oa == task.oa
       IN \/ \* malformed entry: return None before any fetch
             /\ ~(Truthy(oa.id) /\ oa.href)
             /\ UNCHANGED <<hStore, hFetched, hStoredNow>>
          \/ \* request(oa_href) raises after the retries
             /\ Truthy(oa.id) /\ oa.href
             /\ hFetched' = hFetched \cup {task.idx}
             /\ UNCHANGED <<hStore, hStoredNow>>
          \/ \* fetched; s3.put_object raises
             /\ Truthy(oa.id) /\ oa.href
             /\ ~DRY_RUN
             /\ hFetched' = hFetched \cup {task.idx}
             /\ UNCHANGED <<hStore, hStoredNow>>
          \/ \* fetched and stored
             /\ Truthy(oa.id) /\ oa.href
             /\ hFetched' = hFetched \cup {task.idx}
             /\ hStore' = IF DRY_RUN THEN hStore
                          ELSE hStore \cup {OAKey(oa.id, hTs)}
             /\ hStoredNow' = IF DRY_RUN THEN hStoredNow
                              ELSE hStoredNow \cup {task.idx}
    /\ UNCHANGED <<hListing, hDocket, hJunk, hClock, hRun, hPhase, hTs, hListOk,
                   hExisting, hCaseOk, hTasks, hStats, hStoredBefore>>

\* all futures are done: the run ends
HFinish ==
    /\ UNCHANGED NotH
    /\ hPhase = "dispatch"
    /\ hPending = {}
    /\ hPhase' = "idle"
    /\ UNCHANGED <<hListing, hDocket, hStore, hJunk, hClock, hRun, hTs, hListOk,
                   hExisting, hCaseOk, hTasks, hStats, hPending, hFetched,
                   hStoredNow, hStoredBefore>>

(***************************************************************************)
(* src/ingest/main.py                                                      *)
(***************************************************************************)
START_TERM == 2024
END_TERM == 2026
MAX_WORKERS == 2

Terms == START_TERM..(END_TERM - 1)

OA1 == [id |-> PyInt(1), href |-> TRUE]
OA2 == [id |-> PyInt(2), href |-> TRUE]
OANoId == [id |-> PyNone, href |-> TRUE]

DictCase(docket, oas) == [dict |-> TRUE, docket |-> docket, oas |-> oas]
NonDictCase == [dict |-> FALSE, docket |-> FALSE, oas |-> <<>>]

\* case entries a term's case list may hold
CaseEntries ==
    { NonDictCase,
      DictCase(FALSE, <<>>),
      DictCase(TRUE, <<>>),
      DictCase(TRUE, <<OA1>>),
      DictCase(TRUE, <<OA2, OANoId>>),
      DictCase(TRUE, <<OA1, OA1>>) }

CaseLists == UNION { [1..n -> CaseEntries] : n \in 0..MaxCases }

ZeroCount == [cases_total |-> 0, cases_with_docket |-> 0,
              cases_with_oa |-> 0, cases_skipped |-> 0]

\* process_case of main.py, the full case read: one task per listing entry
MainProcessCase(term, oas) ==
    [i \in 1..Len(oas) |-> [term |-> term, idx |-> i - 1, oa |-> oas[i]]]

RECURSIVE ListedOAs(_)
\* number of oral arguments the case entries of a list hold
ListedOAs(cases) ==
    IF cases = <<>> THEN 0 ELSE Len(Head(cases).oas) + ListedOAs(Tail(cases))

RECURSIVE CorpusOAs(_, _)
\* number of oral arguments of the terms from t on
CorpusOAs(corpus, t) ==
    IF t >= END_TERM THEN 0 ELSE ListedOAs(corpus[t]) + CorpusOAs(corpus, t + 1)

RECURSIVE CorpusSize(_, _)
\* number of case entries of the terms from t on
CorpusSize(corpus, t) ==
    IF t >= END_TERM THEN 0 ELSE Len(corpus[t]) + CorpusSize(corpus, t + 1)

\* no term of range(START_TERM, END_TERM) was visited yet
NoTermLog == [t \in Terms |-> "none"]

MInit ==
    /\ mCorpus \in { c \in [Terms -> CaseLists] :
                       /\ CorpusSize(c, START_TERM) <= MaxCases
                       /\ CorpusOAs(c, START_TERM) <= MaxTasks }
    /\ mStore = {}
    /\ mJunk = <<>>
    /\ mClock = 1
    /\ mRunsLeft = 1
    /\ mPhase = "idle"
    /\ mTs = <<>>
    /\ mTerm = START_TERM
    /\ mCases = <<>>
    /\ mCount = ZeroCount
    /\ mTasks = <<>>
    /\ mFut = <<>>
    /\ mCompleted = <<>>
    /\ mCollected = {}
    /\ mUploaded = 0
    /\ mSummaries = 0
    /\ mTermLog = NoTermLog
    /\ mCaseLog = <<>>

\* consecutive invocations of main over one fixed corpus
MRunsInit ==
    /\ mCorpus = [t \in Terms |-> IF t = START_TERM
                                  THEN <<DictCase(TRUE, <<OA1>>)>>
                                  ELSE <<DictCase(TRUE, <<OA2, OANoId>>)>>]
    /\ mStore = {}
    /\ mJunk = <<>>
    /\ mClock = 1
    /\ mRunsLeft = MaxRuns
    /\ mPhase = "idle"
    /\ mTs = <<>>
    /\ mTerm = START_TERM
    /\ mCases = <<>>
    /\ mCount = ZeroCount
    /\ mTasks = <<>>
    /\ mFut = <<>>
    /\ mCompleted = <<>>
    /\ mCollected = {}
    /\ mUploaded = 0
    /\ mSummaries = 0
    /\ mTermLog = NoTermLog
    /\ mCaseLog = <<>>

\* the values of the group in a specification that does not use it
MOff ==
    /\ mCorpus = [t \in Terms |-> <<>>]
    /\ mStore = {}
    /\ mJunk = <<>>
    /\ mClock = 1
    /\ mRunsLeft = 0
    /\ mPhase = "idle"
    /\ mTs = <<>>
    /\ mTerm = START_TERM
    /\ mCases = <<>>
    /\ mCount = ZeroCount
    /\ mTasks = <<>>
    /\ mFut = <<>>
    /\ mCompleted = <<>>
    /\ mCollected = {}
    /\ mUploaded = 0
    /\ mSummaries = 0
    /\ mTermLog = NoTermLog
    /\ mCaseLog = <<>>

\* main() starts: timestamp taken, counters zero, first term fetched next
MStart ==
    /\ UNCHANGED NotM
    /\ mPhase \in {"idle", "done"}
    /\ mRunsLeft > 0
    /\ mRunsLeft' = mRunsLeft - 1
    /\ mTs' = Timestamp(mClock)
    /\ mPhase' = "term"
    /\ mTerm' = START_TERM
    /\ mCases' = <<>>
    /\ mCount' = ZeroCount
    /\ mJunk' = <<>>
    /\ mTasks' = <<>>
    /\ mFut' = <<>>
    /\ mCompleted' = <<>>
    /\ mCollected' = {}
    /\ mUploaded' = 0
    /\ mTermLog' = NoTermLog
    /\ mCaseLog' = <<>>
    /\ UNCHANGED <<mCorpus, mStore, mClock, mSummaries>>

\* the enumeration leaves the term loop once range(START_TERM, END_TERM) is used up
AfterTerm(term) == IF term + 1 < END_TERM THEN "term" ELSE "submit"

\* a loop that stops enumerating at the first term whose request fails
AbortAfterFailedTerm(term) == "submit"

\* except Exception as e: logger.error(f"Failed to process term {term}: {e}")
\* is the last statement of the loop body: the next term follows
AfterFailedTerm(term) == AfterTerm(term)

\* for term in range(...): cases = get_cases_by_term(term)
MGetCases ==
    /\ UNCHANGED NotM
    /\ mPhase = "term"
    /\ \/ \* request raises after the retries, or the response is no list:
          \* the outer except logs it and the loop goes to the next term
          /\ mCases' = <<>>
          /\ mPhase' = AfterFailedTerm(mTerm)
          /\ mTerm' = mTerm + 1
          /\ mTermLog' = [mTermLog EXCEPT ![mTerm] = "failed"]
       \/ \* a list: empty lists are skipped by `continue`
          /\ mCases' = mCorpus[mTerm]
          /\ mTermLog' = [mTermLog EXCEPT ![mTerm] = "listed"]
          /\ IF mCorpus[mTerm] = <<>>
             THEN /\ mPhase' = AfterTerm(mTerm)
                  /\ mTerm' = mTerm + 1
             ELSE /\ mPhase' = "case"
                  /\ UNCHANGED mTerm
    /\ UNCHANGED <<mCaseLog, mCorpus, mStore, mJunk, mClock, mRunsLeft, mTs, mCount, mTasks,
                   mFut, mCompleted, mCollected, mUploaded, mSummaries>>

\* a junk write made once by main and once more by process_case
LogJunkTwice(context) ==
    mJunk' \in {Append(Append(mJunk, context), context), Append(mJunk, context), mJunk}

\* log_junk_to_s3: the record is written, or put_object raises and is logged
LogJunk(context) == mJunk' \in {Append(mJunk, context), mJunk}

\* the position after one iteration of `for case in cases`
NextCase ==
    /\ mCases' = Tail(mCases)
    /\ IF Len(mCases) > 1
       THEN /\ mPhase' = "case"
            /\ UNCHANGED mTerm
       ELSE /\ mPhase' = AfterTerm(mTerm)
            /\ mTerm' = mTerm + 1

\* the exception of process_case leaves the case loop for the handler of the
\* term loop: the cases left in the term are never visited
CaseExceptionUncaught ==
    /\ mCases' = <<>>
    /\ mPhase' = AfterTerm(mTerm)
    /\ mTerm' = mTerm + 1

\* an assignment in place of the increment
SetToOne(count, field) == [count EXCEPT ![field] = 1]

\* count[field] += 1
Bump(count, field) == [count EXCEPT ![field] = @ + 1]

\* a case is counted as skipped only if its junk record reached the store
CountSkippedIfJunkStored(count) ==
    IF mJunk' = mJunk THEN count ELSE Bump(count, "cases_skipped")

\* cases_skipped += 1, the statement after log_junk_to_s3 has returned
CountSkipped(count) == Bump(count, "cases_skipped")

\* the exception of process_case reaches `except Exception` inside the case
\* loop, whose end is the end of the iteration
CaseExceptionCaught == NextCase

\* the entry of the iteration at hand: the term, the position of the case in
\* the list of the term, whether get_case_full was called, the number of junk
\* records the iteration left in the store, and how it ended
Visit(fetched, outcome) ==
    mCaseLog' = Append(mCaseLog,
                       [term |-> mTerm,
                        pos |-> Len(mCorpus[mTerm]) - Len(mCases) + 1,
                        fetched |-> fetched,
                        junk |-> Len(mJunk') - Len(mJunk),
                        outcome |-> outcome])

\* one iteration of `for case in cases`, process_case included
MCase ==
    /\ UNCHANGED NotM
    /\ mPhase = "case"
    /\ LET case == Head(mCases)
           total == Bump(mCount, "cases_total")
       IN \/ /\ ~case.dict
             /\ LogJunk("non_dict_case")
             /\ mCount' = CountSkipped(total)
             /\ UNCHANGED mTasks
             /\ Visit(FALSE, "non_dict_case")
             /\ NextCase
          \/ /\ case.dict /\ ~case.docket
             /\ LogJunk("missing_docket_number")
             /\ mCount' = CountSkipped(total)
             /\ UNCHANGED mTasks
             /\ Visit(FALSE, "missing_docket_number")
             /\ NextCase
          \/ \* get_case_full raises after the retries: the inner except
             /\ case.dict /\ case.docket
             /\ LogJunk("process_case_exception")
             /\ mCount' = CountSkipped(Bump(total, "cases_with_docket"))
             /\ UNCHANGED mTasks
             /\ Visit(TRUE, "process_case_exception")
             /\ CaseExceptionCaught
          \/ \* the full case is read
             /\ case.dict /\ case.docket
             /\ LET subtasks == MainProcessCase(mTerm, case.oas)
                IN /\ mTasks' = mTasks \o subtasks
                   /\ mCount' = Bump(Bump(total, "cases_with_docket"),
                                     IF subtasks # <<>> THEN "cases_with_oa"
                                     ELSE "cases_skipped")
             /\ UNCHANGED mJunk
             /\ Visit(TRUE, "read")
             /\ NextCase
    /\ UNCHANGED <<mTermLog, mCorpus, mStore, mClock, mRunsLeft, mTs, mFut, mCompleted,
                   mCollected, mUploaded, mSummaries>>

\* futures = [executor.submit(process_oa, *args) for args in tasks]
MSubmit ==
    /\ UNCHANGED NotM
    /\ mPhase = "submit"
    /\ mFut' = [t \in 1..Len(mTasks) |-> "queued"]
    /\ mPhase' = "pool"
    /\ UNCHANGED <<mTermLog, mCaseLog, mCorpus, mStore, mJunk, mClock, mRunsLeft, mTs, mTerm, mCases,
                   mCount, mTasks, mCompleted, mCollected, mUploaded, mSummaries>>

Running == { t \in 1..Len(mFut) : mFut[t] = "running" }
Queued == { t \in 1..Len(mFut) : mFut[t] = "queued" }

\* a free worker thread takes the oldest queued task
MWorkerTake ==
    /\ UNCHANGED NotM
    /\ mPhase \in {"pool", "aborted"}
    /\ Queued # {}
    /\ Cardinality(Running) < MAX_WORKERS
    /\ LET t == CHOOSE q \in Queued : \A r \in Queued : q <= r
       IN mFut' = [mFut EXCEPT ![t] = "running"]
    /\ UNCHANGED <<mTermLog, mCaseLog, mCorpus, mStore, mJunk, mClock, mRunsLeft, mPhase, mTs, mTerm,
                   mCases, mCount, mTasks, mCompleted, mCollected, mUploaded,
                   mSummaries>>

\* process_oa(term, case, session, oa, timestamp) runs to its end on a worker
MProcessOa(t) ==
    /\ UNCHANGED NotM
    /\ t \in Running
    /\ LET oa == mTasks[t].oa
       IN \/ \* malformed entry: return None
             /\ ~(Truthy(oa.id) /\ oa.href)
             /\ mFut' = [mFut EXCEPT ![t] = "none"]
             /\ UNCHANGED mStore
          \/ \* request(oa_href) raises after the retries, or put_object raises
             /\ Truthy(oa.id) /\ oa.href
             /\ mFut' = [mFut EXCEPT ![t] = "raised"]
             /\ UNCHANGED mStore
          \/ \* fetched and stored: return size_mb
             /\ Truthy(oa.id) /\ oa.href
             /\ mFut' = [mFut EXCEPT ![t] = "size"]
             /\ mStore' = IF DRY_RUN THEN mStore
                          ELSE mStore \cup {OAKey(oa.id, mTs)}
    /\ mCompleted' = Append(mCompleted, t)
    /\ UNCHANGED <<mTermLog, mCaseLog, mCorpus, mJunk, mClock, mRunsLeft, mPhase, mTs, mTerm, mCases,
                   mCount, mTasks, mCollected, mUploaded, mSummaries>>

\* future.result() outside any try: an exception of the task leaves main
CollectUncaught(t) ==
    /\ mCollected' = mCollected \cup {t}
    /\ mUploaded' = IF mFut[t] = "size" THEN mUploaded + 1 ELSE mUploaded
    /\ mPhase' = IF mFut[t] = "raised" THEN "aborted" ELSE mPhase

\* the body of `for future in as_completed(futures)`: try / except Exception
Collect(t) ==
    /\ mCollected' = mCollected \cup {t}
    /\ mUploaded' = IF mFut[t] = "size" THEN mUploaded + 1 ELSE mUploaded
    /\ UNCHANGED mPhase

\* as_completed yields the next finished future to main
MCollect ==
    /\ UNCHANGED NotM
    /\ mPhase = "pool"
    /\ mCompleted # <<>>
    /\ Collect(Head(mCompleted))
    /\ mCompleted' = Tail(mCompleted)
    /\ UNCHANGED <<mTermLog, mCaseLog, mCorpus, mStore, mJunk, mClock, mRunsLeft, mTs, mTerm, mCases,
                   mCount, mTasks, mFut, mSummaries>>

\* the with block is left once every future was yielded; the summary is
\* built and write_summary_to_s3 puts it, or logs the failure of the put
MSummary ==
    /\ UNCHANGED NotM
    /\ mPhase = "pool"
    /\ mCollected = 1..Len(mTasks)
    /\ mSummaries' \in {mSummaries + 1, mSummaries}
    /\ mPhase' = "done"
    /\ mClock' \in {mClock, mClock + 1}
    /\ UNCHANGED <<mTermLog, mCaseLog, mCorpus, mStore, mJunk, mRunsLeft, mTs, mTerm, mCases,
                   mCount, mTasks, mFut, mCompleted, mCollected, mUploaded>>

\* if __name__ == "__main__": main() -- main returns None and calls no
\* sys.exit, so the interpreter ends with status 0 once main has returned
MExitStatus == IF mPhase = "done" THEN 0 ELSE -1

(***************************************************************************)
(* Rate gate and retry loop.                                               *)
(*   src/ingest/helpers.py, src/ingest/main.py:                            *)
(*       request = retry(3)( sleep_and_retry(limits(1, 1)( GET )) )        *)
(*   src/services/ingest/main.py:                                          *)
(*       _limited_request = sleep_and_retry(limits(1, 1)( retry(3)( GET )))*)
(* limits keeps num_calls and last_reset under a lock: a call that finds   *)
(* the period elapsed resets them, then counts itself, and is refused with *)
(* the remaining time of the period when the count exceeds calls;          *)
(* sleep_and_retry sleeps that long and calls again.                       *)
(***************************************************************************)
CALLS == 1
PERIOD == 1
STOP_AFTER_ATTEMPT == 3
MAX_RETRIES == 3

Threads == 1..MaxThreads
PeriodTicks == PERIOD * TicksPerSecond

Min(a, b) == IF a < b THEN a ELSE b
Max(a, b) == IF a > b THEN a ELSE b

\* wait_exponential(multiplier=1, min=1, max=10) after the given attempt
WaitExponential(attempt) == Max(1, Min(1 * (2 ^ (attempt - 1)), 10)) * TicksPerSecond

\* limits: the refusal test with the comparison turned around one notch
OverLimitOffByOne(num_calls) == num_calls > CALLS + 1

\* limits: num_calls > clamped_calls
OverLimit(num_calls) == num_calls > CALLS

\* stop_after_attempt that gives up one attempt early
StopOneEarly(layout, attempt) == attempt >= STOP_AFTER_ATTEMPT - 1

\* stop_after_attempt(3) / stop_after_attempt(MAX_RETRIES)
ShouldStop(layout, attempt) ==
    IF layout = "gate_in_retry" THEN attempt >= STOP_AFTER_ATTEMPT
    ELSE attempt >= MAX_RETRIES

\* the record of admissions keeps the latest two
LastTwo(q) == IF Len(q) > 2 THEN Tail(q) ELSE q

GInitWith(layout) ==
    /\ gLayout = layout
    /\ gNow = 0
    /\ gLastReset = 0
    /\ gNumCalls = 0
    /\ gPc = [th \in Threads |-> "idle"]
    /\ gAttempt = [th \in Threads |-> 0]
    /\ gWake = [th \in Threads |-> 0]
    /\ gRefusedIn = [th \in Threads |-> 0]
    /\ gOutcomes = [th \in Threads |-> <<>>]
    /\ gAdmits = <<>>
    /\ gAdmitted = [th \in Threads |-> 0]
    /\ gGets = [th \in Threads |-> 0]

\* the values of the group in a specification that does not use it
GOff ==
    /\ gLayout = "gate_in_retry"
    /\ gNow = 0
    /\ gLastReset = 0
    /\ gNumCalls = 0
    /\ gPc = [th \in Threads |-> "off"]
    /\ gAttempt = [th \in Threads |-> 0]
    /\ gWake = [th \in Threads |-> 0]
    /\ gRefusedIn = [th \in Threads |-> 0]
    /\ gOutcomes = [th \in Threads |-> <<>>]
    /\ gAdmits = <<>>
    /\ gAdmitted = [th \in Threads |-> 0]
    /\ gGets = [th \in Threads |-> 0]

\* time passes
GTick ==
    /\ UNCHANGED NotG
    /\ gNow < MaxTicks
    /\ gNow' = gNow + 1
    /\ UNCHANGED <<gLayout, gLastReset, gNumCalls, gPc, gAttempt, gWake,
                   gRefusedIn, gOutcomes, gAdmits, gAdmitted, gGets>>

\* a thread calls request(url): the first attempt goes to the gate
GCall(th) ==
    /\ UNCHANGED NotG
    /\ gPc[th] = "idle"
    /\ gPc' = [gPc EXCEPT ![th] = "gate"]
    /\ gAttempt' = [gAttempt EXCEPT ![th] = 1]
    /\ UNCHANGED <<gLayout, gNow, gLastReset, gNumCalls, gWake, gRefusedIn,
                   gOutcomes, gAdmits, gAdmitted, gGets>>

\* the wrapper of limits, run under its lock, and what follows at once:
\* the wrapped function is entered (the GET goes out) or sleep_and_retry
\* starts to sleep for the rest of the period
GGate(th) ==
    /\ UNCHANGED NotG
    /\ gPc[th] = "gate"
    /\ LET remaining == PeriodTicks - (gNow - gLastReset)
           reset == remaining <= 0
           calls == (IF reset THEN 0 ELSE gNumCalls) + 1
           window == IF reset THEN gNow ELSE gLastReset
       IN /\ gNumCalls' = calls
          /\ gLastReset' = window
          /\ IF OverLimit(calls)
             THEN /\ gPc' = [gPc EXCEPT ![th] = "sleep"]
                  /\ gWake' = [gWake EXCEPT ![th] = gNow + remaining]
                  /\ gRefusedIn' = [gRefusedIn EXCEPT ![th] = window]
                  /\ UNCHANGED <<gAdmits, gAdmitted, gGets>>
             ELSE /\ gPc' = [gPc EXCEPT ![th] = "get"]
                  /\ gAdmits' = LastTwo(Append(gAdmits,
                                     [th |-> th, time |-> gNow, win |-> window]))
                  /\ gAdmitted' = [gAdmitted EXCEPT ![th] = @ + 1]
                  /\ gGets' = [gGets EXCEPT ![th] = @ + 1]
                  /\ UNCHANGED <<gWake, gRefusedIn>>
    /\ UNCHANGED <<gLayout, gNow, gAttempt, gOutcomes>>

\* time.sleep is over (sleep_and_retry, or the wait of tenacity): the gate
\* is called again; inside the gate tenacity calls the GET itself again
GWakeUp(th) ==
    /\ UNCHANGED NotG
    /\ gPc[th] \in {"sleep", "backoff"}
    /\ gNow >= gWake[th]
    /\ IF gPc[th] = "backoff" /\ gLayout = "retry_in_gate"
       THEN /\ gPc' = [gPc EXCEPT ![th] = "get"]
            /\ gGets' = [gGets EXCEPT ![th] = @ + 1]
       ELSE /\ gPc' = [gPc EXCEPT ![th] = "gate"]
            /\ UNCHANGED gGets
    /\ UNCHANGED <<gLayout, gNow, gLastReset, gNumCalls, gAttempt, gWake,
                   gRefusedIn, gOutcomes, gAdmits, gAdmitted>>

\* the GET returns 2xx JSON: request returns it
GResponseOk(th) ==
    /\ UNCHANGED NotG
    /\ gPc[th] = "get"
    /\ gOutcomes' = [gOutcomes EXCEPT ![th] = Append(@, "ok")]
    /\ gPc' = [gPc EXCEPT ![th] = "returned"]
    /\ UNCHANGED <<gLayout, gNow, gLastReset, gNumCalls, gAttempt, gWake,
                   gRefusedIn, gAdmits, gAdmitted, gGets>>

\* the GET fails (transport error or non-2xx): tenacity stops or waits
GResponseFail(th) ==
    /\ UNCHANGED NotG
    /\ gPc[th] = "get"
    /\ gOutcomes' = [gOutcomes EXCEPT ![th] = Append(@, "fail")]
    /\ IF ShouldStop(gLayout, gAttempt[th])
       THEN /\ gPc' = [gPc EXCEPT ![th] = "failed"]
            /\ UNCHANGED <<gAttempt, gWake>>
       ELSE /\ gPc' = [gPc EXCEPT ![th] = "backoff"]
            /\ gWake' = [gWake EXCEPT ![th] = gNow + WaitExponential(gAttempt[th])]
            /\ gAttempt' = [gAttempt EXCEPT ![th] = @ + 1]
    /\ UNCHANGED <<gLayout, gNow, gLastReset, gNumCalls, gRefusedIn, gAdmits,
                   gAdmitted, gGets>>


(***************************************************************************)
(* src/transformers/main.py                                                *)
(***************************************************************************)
SIGINT == 2
SIGTERM == 15
TRANSFORM_MAX_WORKERS == 2
INCREMENTAL == TRUE

AllKeys == 1..MaxKeys

ZeroXCount == [processed |-> 0, failed |-> 0, interrupted |-> 0]

XFinished == { k \in AllKeys : xFut[k] \in {"ok", "fail", "int", "cancelled"} }
XSubmitted == { k \in AllKeys : xFut[k] # "none" }
XRunning == { k \in AllKeys : xFut[k] \in {"started", "working"} }
XPending == { k \in AllKeys : xFut[k] = "pending" }

\* the sorted sequence of a set of keys: the order of the S3 listing
RECURSIVE SeqOfSet(_)
SeqOfSet(S) ==
    IF S = {} THEN <<>>
    ELSE LET lo == CHOOSE k \in S : \A j \in S : k <= j
         IN <<lo>> \o SeqOfSet(S \ {lo})

\* xAtFlag while the flag is not set
NoFlag == [set |-> FALSE, notInvoked |-> {}, submitted |-> {}]

\* the keys whose process_key is not invoked yet, and the futures submitted,
\* at the moment shutdown_requested is set
AtFlag ==
    [set |-> TRUE,
     notInvoked |-> { k \in AllKeys : xFut[k] \in {"none", "pending", "started"} },
     submitted |-> XSubmitted]

XInit ==
    /\ xAlias \in BOOLEAN
    /\ xStore \in SUBSET AllKeys
    /\ xProcessed \in SUBSET xStore
    /\ xPc = "start"
    /\ xShutdown = FALSE
    /\ xSignal = 0
    /\ xPages = SeqOfSet(xStore)
    /\ xKeys = <<>>
    /\ xNext = 1
    /\ xFut = [k \in AllKeys |-> "none"]
    /\ xYielded = {}
    /\ xCompleted = {}
    /\ xCount = ZeroXCount
    /\ xExit = -1
    /\ xGraceExpired = FALSE
    /\ xAtFlag = NoFlag
    /\ xTouched = {}

\* the values of the group in a specification that does not use it
XOff ==
    /\ xAlias = TRUE
    /\ xStore = {}
    /\ xProcessed = {}
    /\ xPc = "off"
    /\ xShutdown = FALSE
    /\ xSignal = 0
    /\ xPages = <<>>
    /\ xKeys = <<>>
    /\ xNext = 1
    /\ xFut = [k \in AllKeys |-> "none"]
    /\ xYielded = {}
    /\ xCompleted = {}
    /\ xCount = ZeroXCount
    /\ xExit = -1
    /\ xGraceExpired = FALSE
    /\ xAtFlag = NoFlag
    /\ xTouched = {}

\* the process ends with the given status
XExitWith(status) == xPc' = "exited" /\ xExit' = status

\* signal_handler(signum, frame): SIGINT or SIGTERM is delivered
XSignalHandler(signum) ==
    /\ UNCHANGED NotX
    /\ xPc \notin {"off", "start", "exited"}
    /\ xSignal = 0
    /\ xSignal' = signum
    /\ xShutdown' = TRUE
    /\ xAtFlag' = IF xShutdown THEN xAtFlag ELSE AtFlag
    /\ UNCHANGED <<xAlias, xGraceExpired, xTouched, xStore, xProcessed, xPc, xPages, xKeys, xNext, xFut,
                   xYielded, xCompleted, xCount, xExit>>

\* main: setup_signal_handlers()
XSetup ==
    /\ UNCHANGED NotX
    /\ xPc = "start"
    /\ xPc' = "installed"
    /\ UNCHANGED <<xAlias, xGraceExpired, xAtFlag, xTouched, xStore, xProcessed, xShutdown, xSignal, xPages, xKeys,
                   xNext, xFut, xYielded, xCompleted, xCount, xExit>>

\* main: if shutdown_requested.is_set(): return, before list_s3_keys
XBeforeListing ==
    /\ UNCHANGED NotX
    /\ xPc = "installed"
    /\ IF xShutdown THEN XExitWith(0)
       ELSE xPc' = "listing" /\ UNCHANGED xExit
    /\ UNCHANGED <<xAlias, xGraceExpired, xAtFlag, xTouched, xStore, xProcessed, xShutdown, xSignal, xPages, xKeys,
                   xNext, xFut, xYielded, xCompleted, xCount>>

\* keys = [k for k in keys if k not in processed_keys], INCREMENTAL only
FilterProcessed(keys) ==
    IF INCREMENTAL THEN SelectSeq(keys, LAMBDA k : k \notin xProcessed) ELSE keys

\* list_s3_keys: one turn of `for page in paginator.paginate(...)`, and the
\* incremental filter once the loop is left
XListPage ==
    /\ UNCHANGED NotX
    /\ xPc = "listing"
    /\ \/ \* a page is read (one key a page)
          /\ ~xShutdown
          /\ xPages # <<>>
          /\ xKeys' = Append(xKeys, Head(xPages))
          /\ xPages' = Tail(xPages)
          /\ UNCHANGED <<xPc, xExit>>
       \/ \* shutdown seen at a page, or no page left: filter and return
          /\ xShutdown \/ xPages = <<>>
          /\ xKeys' = FilterProcessed(xKeys)
          /\ xPc' = "listed"
          /\ UNCHANGED <<xPages, xExit>>
       \/ \* the listing raises: nothing in main catches it
          /\ XExitWith(1)
          /\ UNCHANGED <<xPages, xKeys>>
    /\ UNCHANGED <<xAlias, xGraceExpired, xAtFlag, xTouched, xStore, xProcessed, xShutdown, xSignal, xNext, xFut,
                   xYielded, xCompleted, xCount>>

\* main between list_s3_keys and the pool: the two early returns and
\* ensure_tables_exist
XAfterListing ==
    /\ UNCHANGED NotX
    /\ xPc = "listed"
    /\ \/ /\ xShutdown \/ xKeys = <<>>
          /\ XExitWith(0)
       \/ \* ensure_tables_exist raises
          /\ ~xShutdown /\ xKeys # <<>>
          /\ XExitWith(1)
       \/ /\ ~xShutdown /\ xKeys # <<>>
          /\ xPc' = "submit"
          /\ UNCHANGED xExit
    /\ UNCHANGED <<xAlias, xGraceExpired, xAtFlag, xTouched, xStore, xProcessed, xShutdown, xSignal, xPages, xKeys,
                   xNext, xFut, xYielded, xCompleted, xCount>>

\* the head of one turn of `for key in keys` with its shutdown test
XSubmitTest ==
    /\ UNCHANGED NotX
    /\ xPc = "submit"
    /\ xPc' = IF xShutdown \/ xNext > Len(xKeys) THEN "while" ELSE "submitting"
    /\ UNCHANGED <<xAlias, xGraceExpired, xAtFlag, xTouched, xStore, xProcessed,
                   xShutdown, xSignal, xPages, xKeys, xNext, xFut, xYielded,
                   xCompleted, xCount, xExit>>

\* executor.submit(process_key, key); a signal handled between the test and
\* this call does not stop it
XSubmit ==
    /\ UNCHANGED NotX
    /\ xPc = "submitting"
    /\ xFut' = [xFut EXCEPT ![xKeys[xNext]] = "pending"]
    /\ xNext' = xNext + 1
    /\ xPc' = "submit"
    /\ UNCHANGED <<xAlias, xGraceExpired, xAtFlag, xTouched, xStore, xProcessed,
                   xShutdown, xSignal, xPages, xKeys, xYielded, xCompleted, xCount,
                   xExit>>

\* while futures and not shutdown_requested.is_set()
WhileTest == XSubmitted # {} /\ ~xShutdown

\* the head of the while loop: a new as_completed(futures.keys(), timeout=1.0)
XWhile ==
    /\ UNCHANGED NotX
    /\ xPc = "while"
    /\ IF WhileTest
       THEN xPc' = "as_completed" /\ xYielded' = {}
       ELSE xPc' = "after_loop" /\ UNCHANGED xYielded
    /\ UNCHANGED <<xAlias, xGraceExpired, xAtFlag, xTouched, xStore, xProcessed, xShutdown, xSignal, xPages, xKeys,
                   xNext, xFut, xCompleted, xCount, xExit>>

\* the counters after future.result() of key k
Counted(count, k) ==
    CASE xFut[k] = "ok" -> [count EXCEPT !.processed = @ + 1]
      [] xFut[k] = "int" -> [count EXCEPT !.interrupted = @ + 1]
      [] OTHER -> [count EXCEPT !.failed = @ + 1]

\* as_completed yields a finished future: one turn of the for loop
XYield(k) ==
    /\ UNCHANGED NotX
    /\ xPc = "as_completed"
    /\ k \in XFinished \ xYielded
    /\ xYielded' = xYielded \cup {k}
    /\ IF k \in xCompleted
       THEN UNCHANGED <<xCompleted, xCount, xPc>>
       ELSE /\ xCompleted' = xCompleted \cup {k}
            /\ xCount' = Counted(xCount, k)
            /\ xPc' = IF Cardinality(xCompleted') = Cardinality(XSubmitted)
                      THEN "while" ELSE "as_completed"
    /\ UNCHANGED <<xAlias, xGraceExpired, xAtFlag, xTouched, xStore, xProcessed, xShutdown, xSignal, xPages, xKeys,
                   xNext, xFut, xExit>>

\* as_completed has yielded every future: the for loop ends
XForEnd ==
    /\ UNCHANGED NotX
    /\ xPc = "as_completed"
    /\ xYielded = XSubmitted
    /\ xPc' = "while"
    /\ UNCHANGED <<xAlias, xGraceExpired, xAtFlag, xTouched, xStore, xProcessed, xShutdown, xSignal, xPages, xKeys,
                   xNext, xFut, xYielded, xCompleted, xCount, xExit>>

\* a second passes with a future unfinished: concurrent.futures.TimeoutError.
\* `except TimeoutError` names the builtin: it catches where the two are one
\* class; elsewhere it leaves the pool for `except Exception`
XTimeout ==
    /\ UNCHANGED NotX
    /\ xPc = "as_completed"
    /\ XSubmitted \ XFinished # {}
    /\ xPc' = IF xAlias THEN "while" ELSE "raised"
    /\ UNCHANGED <<xAlias, xGraceExpired, xAtFlag, xTouched, xStore, xProcessed, xShutdown, xSignal, xPages, xKeys,
                   xNext, xFut, xYielded, xCompleted, xCount, xExit>>

\* after the while loop: graceful_shutdown_executor cancels what has not started
XAfterLoop ==
    /\ UNCHANGED NotX
    /\ xPc = "after_loop"
    /\ IF xShutdown
       THEN /\ xFut' = [k \in AllKeys |-> IF xFut[k] = "pending" /\ k \notin xCompleted
                                          THEN "cancelled" ELSE xFut[k]]
            /\ xPc' = "grace"
       ELSE /\ xPc' = "with_exit"
            /\ UNCHANGED xFut
    /\ UNCHANGED <<xAlias, xGraceExpired, xAtFlag, xTouched, xStore, xProcessed, xShutdown, xSignal, xPages, xKeys,
                   xNext, xYielded, xCompleted, xCount, xExit>>

\* graceful_shutdown_executor returns: nothing is running any more, or the
\* 30 s are over; the futures not counted so far are counted as interrupted
XGraceOver ==
    /\ UNCHANGED NotX
    /\ xPc = "grace"
    /\ xCount' = [xCount EXCEPT !.interrupted =
                      @ + Cardinality(XSubmitted) - Cardinality(xCompleted)]
    /\ xGraceExpired' = (XRunning # {})
    /\ xPc' = "with_exit"
    /\ UNCHANGED <<xAlias, xAtFlag, xTouched, xStore, xProcessed, xShutdown, xSignal, xPages, xKeys,
                   xNext, xFut, xYielded, xCompleted, xExit>>

\* ThreadPoolExecutor.__exit__: shutdown(wait=True) joins the workers; an
\* exception that left the pool then reaches `except Exception`, which sets
\* the flag
XWithExit ==
    /\ UNCHANGED NotX
    /\ xPc \in {"with_exit", "raised"}
    /\ XRunning = {} /\ XPending = {}
    /\ xShutdown' = (xShutdown \/ xPc = "raised")
    /\ xAtFlag' = IF ~xShutdown /\ xPc = "raised" THEN AtFlag ELSE xAtFlag
    /\ xPc' = "final"
    /\ UNCHANGED <<xAlias, xGraceExpired, xTouched, xStore, xProcessed, xSignal, xPages, xKeys,
                   xNext, xFut, xYielded, xCompleted, xCount, xExit>>

\* sys.exit at the end of main
ExitStatus == IF xShutdown THEN 130 ELSE IF xCount.failed > 0 THEN 1 ELSE 0

\* the final summary and sys.exit
XFinal ==
    /\ UNCHANGED NotX
    /\ xPc = "final"
    /\ XExitWith(ExitStatus)
    /\ UNCHANGED <<xAlias, xGraceExpired, xAtFlag, xTouched, xStore, xProcessed, xShutdown, xSignal, xPages, xKeys,
                   xNext, xFut, xYielded, xCompleted, xCount>>

\* a free worker thread takes the oldest queued future
XWorkerTake ==
    /\ UNCHANGED NotX
    /\ XPending # {}
    /\ Cardinality(XRunning) < TRANSFORM_MAX_WORKERS
    /\ LET i == CHOOSE i \in 1..Len(xKeys) :
                    /\ xKeys[i] \in XPending
                    /\ \A j \in 1..Len(xKeys) : xKeys[j] \in XPending => i <= j
       IN xFut' = [xFut EXCEPT ![xKeys[i]] = "started"]
    /\ UNCHANGED <<xAlias, xGraceExpired, xAtFlag, xTouched, xStore, xProcessed, xPc, xShutdown, xSignal, xPages,
                   xKeys, xNext, xYielded, xCompleted, xCount, xExit>>

\* process_key with the test on entry left out
EntryNoTest(flag) == "working"

\* process_key: if shutdown_requested.is_set(): return "Skipped"
EntryResult(flag) == IF flag THEN "int" ELSE "working"

\* process_key: the shutdown test on entry
XProcessKeyEnter(k) ==
    /\ UNCHANGED NotX
    /\ xFut[k] = "started"
    /\ xFut' = [xFut EXCEPT ![k] = EntryResult(xShutdown)]
    /\ xTouched' = IF EntryResult(xShutdown) = "working"
                   THEN xTouched \cup {k} ELSE xTouched
    /\ UNCHANGED <<xAlias, xGraceExpired, xAtFlag, xStore, xProcessed, xPc, xShutdown, xSignal, xPages,
                   xKeys, xNext, xYielded, xCompleted, xCount, xExit>>

\* process_key returns: with the flag set every way out gives an interrupted
\* result; otherwise the key was processed or failed
XProcessKeyReturn(k) ==
    /\ UNCHANGED NotX
    /\ xFut[k] = "working"
    /\ \E result \in IF xShutdown THEN {"int"} ELSE {"ok", "fail"} :
          xFut' = [xFut EXCEPT ![k] = result]
    /\ UNCHANGED <<xAlias, xGraceExpired, xAtFlag, xTouched, xStore, xProcessed, xPc, xShutdown, xSignal, xPages,
                   xKeys, xNext, xYielded, xCompleted, xCount, xExit>>

\* the steps of main
XMain ==
    \/ XSetup
    \/ XBeforeListing
    \/ XListPage
    \/ XAfterListing
    \/ XSubmitTest
    \/ XSubmit
    \/ XWhile
    \/ \E k \in AllKeys : XYield(k)
    \/ XForEnd
    \/ XTimeout
    \/ XAfterLoop
    \/ XGraceOver
    \/ XWithExit
    \/ XFinal

\* the steps of the worker threads
XWorker ==
    \/ XWorkerTake
    \/ \E k \in AllKeys : XProcessKeyEnter(k)
    \/ \E k \in AllKeys : XProcessKeyReturn(k)

(***************************************************************************)
(* src/services/ingest/main.py: main and signal_handler                    *)
(***************************************************************************)
SvcTasks == Terms \X (1..MaxSvcCases)

ZeroSvcCounters == [total_cases |-> 0, processed_terms |-> 0]

SvcFinished == { t \in SvcTasks : sFut[t] \in {"oas", "empty", "raised", "cancelled"} }
SvcRunning == { t \in SvcTasks : sFut[t] \in {"started", "working"} }
SvcPending == { t \in SvcTasks : sFut[t] = "pending" }
TermTasks(term) == { t \in SvcTasks : t[1] = term /\ sFut[t] # "none" }

SInit ==
    /\ sLockAttr \in BOOLEAN
    /\ sCorpus \in [Terms -> 0..MaxSvcCases]
    /\ sPc = "start"
    /\ sShutdown = FALSE
    /\ sSignal = 0
    /\ sSignalAt = "none"
    /\ sFetchedAtSignal = {}
    /\ sLock = FALSE
    /\ sTerm = START_TERM
    /\ sFut = [t \in SvcTasks |-> "none"]
    /\ sActive = {}
    /\ sOAs = {}
    /\ sCounters = ZeroSvcCounters
    /\ sUploads = {}
    /\ sSummaries = <<>>
    /\ sExit = -1

\* the values of the group in a specification that does not use it
SOff ==
    /\ sLockAttr = TRUE
    /\ sCorpus = [term \in Terms |-> 0]
    /\ sPc = "off"
    /\ sShutdown = FALSE
    /\ sSignal = 0
    /\ sSignalAt = "none"
    /\ sFetchedAtSignal = {}
    /\ sLock = FALSE
    /\ sTerm = START_TERM
    /\ sFut = [t \in SvcTasks |-> "none"]
    /\ sActive = {}
    /\ sOAs = {}
    /\ sCounters = ZeroSvcCounters
    /\ sUploads = {}
    /\ sSummaries = <<>>
    /\ sExit = -1

\* positions of main inside `with ThreadPoolExecutor(...) as executor`
InPool == {"term", "cases"}

\* signal_handler(signum, _): sets the flag, cancels active_futures when
\* executor_lock is set, and raises SystemExit(0) in the main thread; inside
\* the pool the with statement joins the workers before the exit goes on
SSignalHandler(signum) ==
    /\ UNCHANGED NotS
    /\ sPc \notin {"off", "start", "unwind", "exited"}
    /\ sSignal = 0
    /\ sSignal' = signum
    /\ sSignalAt' = sPc
    /\ sFetchedAtSignal' = { t \in SvcTasks : sFut[t] = "oas" }
    /\ sShutdown' = TRUE
    /\ sFut' = [t \in SvcTasks |->
                   IF sLock /\ t \in sActive /\ sFut[t] = "pending"
                   THEN "cancelled" ELSE sFut[t]]
    /\ IF sPc \in InPool
       THEN sPc' = "unwind" /\ sExit' = 0
       ELSE sPc' = "exited" /\ sExit' = 0
    /\ UNCHANGED <<sLockAttr, sCorpus, sLock, sTerm, sActive, sOAs, sCounters,
                   sUploads, sSummaries>>

\* main: setup_signal_handlers()
SSetup ==
    /\ UNCHANGED NotS
    /\ sPc = "start"
    /\ sPc' = "existing"
    /\ UNCHANGED <<sLockAttr, sFetchedAtSignal, sCorpus, sShutdown, sSignal, sSignalAt, sLock, sTerm,
                   sFut, sActive, sOAs, sCounters, sUploads, sSummaries, sExit>>

\* main: start_time, timestamp, existing_oa_ids = get_existing_oa_ids()
SGetExistingOAIds ==
    /\ UNCHANGED NotS
    /\ sPc = "existing"
    /\ sPc' = "enter"
    /\ UNCHANGED <<sLockAttr, sFetchedAtSignal, sCorpus, sShutdown, sSignal, sSignalAt, sLock, sTerm,
                   sFut, sActive, sOAs, sCounters, sUploads, sSummaries, sExit>>

\* main: the pool is created and executor_lock = executor._threads_queues[1];
\* when the attribute access raises, `except Exception` logs and re-raises
SPoolEnter ==
    /\ UNCHANGED NotS
    /\ sPc = "enter"
    /\ IF sLockAttr
       THEN sLock' = TRUE /\ sPc' = "term" /\ UNCHANGED sExit
       ELSE sPc' = "exited" /\ sExit' = 1 /\ UNCHANGED sLock
    /\ UNCHANGED <<sLockAttr, sFetchedAtSignal, sCorpus, sShutdown, sSignal, sSignalAt, sTerm,
                   sFut, sActive, sOAs, sCounters, sUploads, sSummaries>>

\* one turn of `for term in range(START_TERM, END_TERM)` up to the submission
\* of the cases: get_cases_by_term gives the cases, or [] when the request
\* failed
STermLoop ==
    /\ UNCHANGED NotS
    /\ sPc = "term"
    /\ IF sTerm >= END_TERM \/ sShutdown
       THEN /\ sPc' = "pool_exit"
            /\ UNCHANGED <<sTerm, sFut, sActive, sCounters>>
       ELSE \E n \in {0, sCorpus[sTerm]} :
              IF n = 0
              THEN /\ sTerm' = sTerm + 1
                   /\ UNCHANGED <<sPc, sFut, sActive, sCounters>>
              ELSE /\ sCounters' = [sCounters EXCEPT !.total_cases = @ + n]
                   /\ sFut' = [t \in SvcTasks |->
                                  IF t[1] = sTerm /\ t[2] <= n THEN "pending"
                                  ELSE sFut[t]]
                   /\ sActive' = sActive \cup {t \in SvcTasks : t[1] = sTerm /\ t[2] <= n}
                   /\ sPc' = "cases"
                   /\ UNCHANGED sTerm
    /\ UNCHANGED <<sLockAttr, sFetchedAtSignal, sCorpus, sShutdown, sSignal, sSignalAt, sLock, sOAs,
                   sUploads, sSummaries, sExit>>

\* one turn of `for future in as_completed(future_to_case)`
SAsCompleted(t) ==
    /\ UNCHANGED NotS
    /\ sPc = "cases"
    /\ t \in TermTasks(sTerm) \cap SvcFinished \cap sActive
    /\ ~sShutdown
    /\ sOAs' = IF sFut[t] = "oas" THEN sOAs \cup {t} ELSE sOAs
    /\ sActive' = sActive \ {t}
    /\ UNCHANGED <<sLockAttr, sFetchedAtSignal, sCorpus, sPc, sShutdown, sSignal, sSignalAt, sLock,
                   sTerm, sFut, sCounters, sUploads, sSummaries, sExit>>

\* the as_completed loop of the term is over: processed_terms += 1
STermDone ==
    /\ UNCHANGED NotS
    /\ sPc = "cases"
    /\ sShutdown \/ TermTasks(sTerm) \cap sActive = {}
    /\ sCounters' = [sCounters EXCEPT !.processed_terms = @ + 1]
    /\ sTerm' = sTerm + 1
    /\ sPc' = "term"
    /\ UNCHANGED <<sLockAttr, sFetchedAtSignal, sCorpus, sShutdown, sSignal, sSignalAt, sLock, sFut,
                   sActive, sOAs, sUploads, sSummaries, sExit>>

\* ThreadPoolExecutor.__exit__ joins the workers: after the term loop, or
\* while SystemExit unwinds out of the pool
SPoolExit ==
    /\ UNCHANGED NotS
    /\ sPc \in {"pool_exit", "unwind"}
    /\ SvcRunning = {} /\ SvcPending = {}
    /\ sPc' = IF sPc = "unwind" THEN "exited" ELSE "upload"
    /\ UNCHANGED <<sLockAttr, sFetchedAtSignal, sCorpus, sShutdown, sSignal, sSignalAt, sLock, sTerm,
                   sFut, sActive, sOAs, sCounters, sUploads, sSummaries, sExit>>

\* the terms that have records in all_oral_arguments
TermsWithOAs == { t[1] : t \in sOAs }

\* if not shutdown_requested: the record file of each term is put to the
\* store; a put_object that raises ends the run through `except Exception`
SUpload ==
    /\ UNCHANGED NotS
    /\ sPc = "upload"
    /\ IF sShutdown
       THEN /\ sPc' = "exited" /\ sExit' = 0
            /\ UNCHANGED sUploads
       ELSE \/ /\ sUploads' = TermsWithOAs
               /\ sPc' = "summary"
               /\ UNCHANGED sExit
            \/ /\ TermsWithOAs # {}
               /\ \E done \in SUBSET TermsWithOAs :
                     /\ done # TermsWithOAs
                     /\ sUploads' = done
               /\ sPc' = "exited" /\ sExit' = 1
    /\ UNCHANGED <<sLockAttr, sFetchedAtSignal, sCorpus, sShutdown, sSignal, sSignalAt, sLock, sTerm,
                   sFut, sActive, sOAs, sCounters, sSummaries>>

\* the summary dict main builds
Summary ==
    [processed_terms |-> sCounters.processed_terms,
     total_cases |-> sCounters.total_cases,
     total_oral_arguments |-> Cardinality(sOAs)]

\* write_summary_to_s3(summary), which only logs a failed put_object, and the
\* return of main
SWriteSummary ==
    /\ UNCHANGED NotS
    /\ sPc = "summary"
    /\ \/ sSummaries' = Append(sSummaries, Summary)
       \/ UNCHANGED sSummaries
    /\ sPc' = "exited" /\ sExit' = 0
    /\ UNCHANGED <<sLockAttr, sFetchedAtSignal, sCorpus, sShutdown, sSignal, sSignalAt, sLock, sTerm,
                   sFut, sActive, sOAs, sCounters, sUploads>>

\* a free worker thread takes a queued future
SWorkerTake(t) ==
    /\ UNCHANGED NotS
    /\ t \in SvcPending
    /\ \A u \in SvcPending : t[2] <= u[2]
    /\ Cardinality(SvcRunning) < MAX_WORKERS
    /\ sFut' = [sFut EXCEPT ![t] = "started"]
    /\ UNCHANGED <<sLockAttr, sFetchedAtSignal, sCorpus, sPc, sShutdown, sSignal, sSignalAt, sLock,
                   sTerm, sActive, sOAs, sCounters, sUploads, sSummaries, sExit>>

\* process_case: if shutdown_requested: return []
SProcessCaseEnter(t) ==
    /\ UNCHANGED NotS
    /\ sFut[t] = "started"
    /\ sFut' = [sFut EXCEPT ![t] = IF sShutdown THEN "empty" ELSE "working"]
    /\ UNCHANGED <<sLockAttr, sFetchedAtSignal, sCorpus, sPc, sShutdown, sSignal, sSignalAt, sLock,
                   sTerm, sActive, sOAs, sCounters, sUploads, sSummaries, sExit>>

\* process_case returns its records, returns none, or raises
SProcessCaseReturn(t) ==
    /\ UNCHANGED NotS
    /\ sFut[t] = "working"
    /\ \E result \in {"oas", "empty", "raised"} :
          sFut' = [sFut EXCEPT ![t] = result]
    /\ UNCHANGED <<sLockAttr, sFetchedAtSignal, sCorpus, sPc, sShutdown, sSignal, sSignalAt, sLock,
                   sTerm, sActive, sOAs, sCounters, sUploads, sSummaries, sExit>>

\* sub in s
HasSub(s, sub) ==
    \E i \in 1..(Len(s) - Len(sub) + 1) : SubSeq(s, i, i + Len(sub) - 1) = sub

\* s.find(sub) + 1 when sub is in s
FindSub(s, sub) ==
    CHOOSE i \in 1..(Len(s) - Len(sub) + 1) :
        /\ SubSeq(s, i, i + Len(sub) - 1) = sub
        /\ \A j \in 1..(i - 1) : SubSeq(s, j, j + Len(sub) - 1) # sub

\* s.split(sub)[1] when sub is in s
SecondPiece(s, sub) ==
    LET rest == SubSeq(s, FindSub(s, sub) + Len(sub), Len(s))
    IN IF HasSub(rest, sub) THEN SubSeq(rest, 1, FindSub(rest, sub) - 1) ELSE rest

\* whether int(s) returns instead of raising ValueError, for s without sign,
\* blanks or underscores
IsDigits(s) ==
    /\ s # <<>>
    /\ \A i \in 1..Len(s) : \E d \in 1..10 : DigitChars[d] = s[i]

RECURSIVE NatOfStr(_)
\* int(s) of a string of decimal digits
NatOfStr(s) ==
    IF s = <<>> THEN 0
    ELSE 10 * NatOfStr(SubSeq(s, 1, Len(s) - 1))
         + ((CHOOSE d \in 1..10 : DigitChars[d] = s[Len(s)]) - 1)

\* key = f"raw/oral_arguments/term_{term}/oral_arguments_{term}_{timestamp}.json"
SvcTermKey(term, timestamp) ==
    <<"r", "a", "w", "/", "o", "r", "a", "l", "_", "a", "r", "g", "u", "m", "e", "n", "t", "s", "/", "t", "e", "r", "m", "_">> \o StrOfNat(term) \o
    <<"/", "o", "r", "a", "l", "_", "a", "r", "g", "u", "m", "e", "n", "t", "s", "_">> \o StrOfNat(term) \o <<"_">> \o
    timestamp \o JsonSuffix

\* key.split('oa_')[1].split('_')[0]
OAIdPart(key) == Split(SecondPiece(key, <<"o", "a", "_">>), "_")[1]

\* get_existing_oa_ids() of src/services/ingest/main.py over the keys the
\* listing of raw/oral_arguments/ returns
SvcExistingOAIds(keys) ==
    { NatOfStr(OAIdPart(key)) :
        key \in { k \in keys : HasSub(k, <<"o", "a", "_">>) /\ IsDigits(OAIdPart(k)) } }

\* the keys of the term files the run has put, under the timestamp of the run
SvcStoreKeys == { SvcTermKey(term, Timestamp(1)) : term \in sUploads }

(***************************************************************************)
(* src/transformers/helpers.py: process_transcript_with_chunking           *)
(***************************************************************************)
MODEL_DIMENSION == 2

\* whitespace as str.strip() and str.split() see it
IsSpace(ch) == ch \in {" ", "\n"}

RECURSIVE LStrip(_)
LStrip(s) == IF s # <<>> /\ IsSpace(Head(s)) THEN LStrip(Tail(s)) ELSE s

RECURSIVE RStrip(_)
RStrip(s) ==
    IF s # <<>> /\ IsSpace(s[Len(s)]) THEN RStrip(SubSeq(s, 1, Len(s) - 1)) ELSE s

\* text.strip()
Strip(s) == RStrip(LStrip(s))

\* len(text.split()): the number of maximal runs of non-whitespace
WordCount(s) ==
    Cardinality({ i \in 1..Len(s) :
                    /\ ~IsSpace(s[i])
                    /\ (i = 1 \/ IsSpace(s[i - 1])) })

\* a filter that takes every block that has text
KeepsAnyText(text) == Truthy(text)

\* if text and len(text.strip().split()) > 3
KeepsBlock(text) == Truthy(text) /\ WordCount(Strip(text.s)) > 3

\* the start of a section in the flattened document
SectionMark == [t |-> "section", n |-> 0, s |-> <<>>]

\* block.get("text") of the text blocks the documents are built from
BlockTexts ==
    { PyNone,
      PyStr(<<"a", " ", "b", " ", "c">>),
      PyStr(<<"a", " ", "b", " ", "c", " ", "d">>),
      PyStr(<<" ", "a", " ", "b", " ", "c", " ", "d", "e", " ">>) }

\* data["transcript"]["sections"] that is a non-empty list, flattened in
\* document order: a section mark, then the text blocks of the turns of the
\* section
RECURSIVE SeqsUpTo(_, _)
SeqsUpTo(S, n) ==
    IF n = 0 THEN {<<>>}
    ELSE LET shorter == SeqsUpTo(S, n - 1)
         IN shorter \cup { Append(q, x) : q \in { r \in shorter : Len(r) = n - 1 }, x \in S }

SectionLists ==
    { <<SectionMark>> \o q : q \in SeqsUpTo(BlockTexts \cup {SectionMark}, MaxItems - 1) }

\* the utterance_data dict of a kept block
UtteranceData(text, idx, off) ==
    [utterance_index |-> idx,
     text |-> text,
     word_count |-> WordCount(text),
     char_start_offset |-> off,
     char_end_offset |-> off + Len(text)]

\* f"{speaker}: {text}" with the default speaker
Speaker == <<"U">>
SectionText(text) == Speaker \o <<":", " ">> \o text

RECURSIVE JoinLines(_)
\* "\n".join(section_texts)
JoinLines(texts) ==
    IF texts = <<>> THEN <<>>
    ELSE IF Len(texts) = 1 THEN texts[1]
    ELSE texts[1] \o <<"\n">> \o JoinLines(Tail(texts))

\* the same dict with the index after the last utterance as its end
SectionChunkEndExclusive(section_id, texts, start_idx, next_idx) ==
    [section_id |-> section_id,
     chunk_text |-> JoinLines(texts),
     word_count |-> WordCount(JoinLines(texts)),
     start_utterance_index |-> start_idx,
     end_utterance_index |-> next_idx,
     utterance_count |-> Len(texts)]

\* the section_chunk dict of a section that has content
SectionChunk(section_id, texts, start_idx, next_idx) ==
    [section_id |-> section_id,
     chunk_text |-> JoinLines(texts),
     word_count |-> WordCount(JoinLines(texts)),
     start_utterance_index |-> start_idx,
     end_utterance_index |-> next_idx - 1,
     utterance_count |-> Len(texts)]

\* the state of the walk before the first section
WalkStart ==
    [section_id |-> -1, idx |-> 0, off |-> 0, utts |-> <<>>, chunks |-> <<>>,
     texts |-> <<>>, start_idx |-> 0]

\* the end of a section: if section_texts: section_chunks.append(...)
CloseSection(w) ==
    IF w.texts # <<>>
    THEN [w EXCEPT !.chunks = Append(@, SectionChunk(w.section_id, w.texts,
                                                     w.start_idx, w.idx)),
                   !.texts = <<>>]
    ELSE w

\* one text block of the walk
WalkBlock(w, text) ==
    IF KeepsBlock(text)
    THEN LET t == Strip(text.s)
         IN [w EXCEPT !.utts = Append(@, UtteranceData(t, w.idx, w.off)),
                      !.texts = Append(@, SectionText(t)),
                      !.off = @ + Len(t) + 1,
                      !.idx = @ + 1]
    ELSE w

RECURSIVE Walk(_, _)
\* for section_id, section in enumerate(sections): for turn: for block
Walk(items, w) ==
    IF items = <<>> THEN CloseSection(w)
    ELSE IF Head(items).t = "section"
         THEN LET c == CloseSection(w)
              IN Walk(Tail(items), [c EXCEPT !.section_id = @ + 1,
                                             !.start_idx = c.idx])
         ELSE Walk(Tail(items), WalkBlock(w, Head(items)))

\* all_utterances_data and section_chunks of a sections list
Chunking(sections) == Walk(sections, WalkStart)

(***************************************************************************)
(* src/transformers/main.py process_key with the helpers it calls, on one  *)
(* raw key                                                                 *)
(***************************************************************************)
\* the raw key, as the ingest writes it
PKey == OAKey(PyInt(7), Timestamp(1))

\* a junk key that keeps the whole raw key
JunkFullKey(key) == <<"j", "u", "n", "k", "/">> \o key

\* junk_key = f"junk/{key.split('/')[-1]}"
JunkKey(key) == <<"j", "u", "n", "k", "/">> \o Last(Split(key, "/"))

\* extract_metadata_from_key(key)["case_id"]: the file name without .json
\* (the file names the ingest writes hold a "_")
CaseIdOfKey(key) ==
    LET name == Last(Split(key, "/"))
    IN SubSeq(name, 1, Len(name) - Len(JsonSuffix))

\* the JSON documents: without "transcript", without "sections", with
\* sections that is not a list, and with a list of sections
Documents ==
    { [shape |-> sh, sections |-> <<>>] :
          sh \in {"no_transcript", "no_sections", "not_list", "list"} }
    \cup { [shape |-> "list", sections |-> q] : q \in SectionLists }

\* the data validation of process_transcript_with_chunking passes
SectionsOk(data) ==
    /\ data.shape \notin {"no_transcript", "no_sections"}
    /\ data.shape = "list" /\ Len(data.sections) # 0

\* the parameters of the INSERT into oa_text
OaTextRow(utt, key) ==
    [case_id |-> CaseIdOfKey(key),
     utterance_index |-> utt.utterance_index,
     text |-> utt.text,
     word_count |-> utt.word_count,
     char_start_offset |-> utt.char_start_offset,
     char_end_offset |-> utt.char_end_offset,
     source_key |-> key]

\* INSERT without the ON CONFLICT clause, on a table without the constraint
InsertOaText(rows, row) == Append(rows, row)

\* INSERT INTO oa_text ... ON CONFLICT (case_id, utterance_index) DO UPDATE
UpsertOaText(rows, row) ==
    IF \E i \in 1..Len(rows) : /\ rows[i].case_id = row.case_id
                               /\ rows[i].utterance_index = row.utterance_index
    THEN [i \in 1..Len(rows) |->
             IF /\ rows[i].case_id = row.case_id
                /\ rows[i].utterance_index = row.utterance_index
             THEN row ELSE rows[i]]
    ELSE Append(rows, row)

\* the executes of insert_oa_text_data without the commit: the rows are gone
\* when the connection is closed
InsertOaTextUncommitted(rows, utts, key) == rows

RECURSIVE InsertOaTextData(_, _, _)
\* insert_oa_text_data(utterances_data, conn), committed
InsertOaTextData(rows, utts, key) ==
    IF utts = <<>> THEN rows
    ELSE InsertOaTextData(UpsertOaText(rows, OaTextRow(Head(utts), key)),
                          Tail(utts), key)

\* chunk.update({... 'vector': emb.tolist(), 'embedding_dimension': ...})
WithEmbedding(chunk, len, key) ==
    [section_id |-> chunk.section_id,
     chunk_text |-> chunk.chunk_text,
     word_count |-> chunk.word_count,
     start_utterance_index |-> chunk.start_utterance_index,
     end_utterance_index |-> chunk.end_utterance_index,
     utterance_count |-> chunk.utterance_count,
     case_id |-> CaseIdOfKey(key),
     vector |-> [i \in 1..len |-> 0],
     embedding_dimension |-> MODEL_DIMENSION,
     source_key |-> key]

\* insert_document_chunk_embeddings without its assert
DimensionUnchecked(chunk) == TRUE

\* assert len(chunk['vector']) == expected_dim
DimensionOk(chunk) == Len(chunk.vector) = chunk.embedding_dimension

\* the parameters of the INSERT into document_chunk_embeddings
ChunkRow(chunk) ==
    [case_id |-> chunk.case_id,
     section_id |-> chunk.section_id,
     chunk_text |-> chunk.chunk_text,
     vector |-> chunk.vector,
     word_count |-> chunk.word_count,
     start_utterance_index |-> chunk.start_utterance_index,
     end_utterance_index |-> chunk.end_utterance_index,
     embedding_dimension |-> chunk.embedding_dimension,
     source_key |-> chunk.source_key]

\* INSERT INTO document_chunk_embeddings ... ON CONFLICT (case_id, section_id)
\* DO UPDATE
UpsertChunk(rows, row) ==
    IF \E i \in 1..Len(rows) : /\ rows[i].case_id = row.case_id
                               /\ rows[i].section_id = row.section_id
    THEN [i \in 1..Len(rows) |->
             IF /\ rows[i].case_id = row.case_id
                /\ rows[i].section_id = row.section_id
             THEN row ELSE rows[i]]
    ELSE Append(rows, row)

RECURSIVE InsertChunks(_, _)
\* the executes of insert_document_chunk_embeddings when every assert passes
InsertChunks(rows, chunks) ==
    IF chunks = <<>> THEN rows
    ELSE InsertChunks(UpsertChunk(rows, ChunkRow(Head(chunks))), Tail(chunks))

\* chunks[0].get('chunk_xml', '')
ChunkXml(chunk) == IF "chunk_xml" \in DOMAIN chunk THEN chunk.chunk_xml ELSE <<>>

\* process_key reaches insert_case_embedding_to_postgres, which writes the
\* s3_key row of transcript_embeddings
WritesCaseEmbedding(chunks, flag) ==
    chunks # <<>> /\ ~flag /\ ChunkXml(chunks[1]) # <<>>

PInit ==
    /\ pData \in Documents
    /\ pEmbedLen \in {MODEL_DIMENSION, MODEL_DIMENSION + 1}
    /\ pPc = "idle"
    /\ pPass = 0
    /\ pShutdown = FALSE
    /\ pChunks = <<>>
    /\ pOaText = <<>>
    /\ pChunkRows = <<>>
    /\ pProcessed = {}
    /\ pJunk = {}
    /\ pResults = <<>>
    /\ pAfterFirst = [oa |-> <<>>, chunks |-> <<>>]
    /\ pExcept = [tried |-> FALSE, failed |-> FALSE]

\* the values of the group in a specification that does not use it
POff ==
    /\ pData = [shape |-> "list", sections |-> <<>>]
    /\ pEmbedLen = MODEL_DIMENSION
    /\ pPc = "off"
    /\ pPass = 0
    /\ pShutdown = FALSE
    /\ pChunks = <<>>
    /\ pOaText = <<>>
    /\ pChunkRows = <<>>
    /\ pProcessed = {}
    /\ pJunk = {}
    /\ pResults = <<>>
    /\ pAfterFirst = [oa |-> <<>>, chunks |-> <<>>]
    /\ pExcept = [tried |-> FALSE, failed |-> FALSE]

\* process_key returns result with the tables as given
PReturn(result, oa, rows) ==
    /\ pResults' = Append(pResults, result)
    /\ pOaText' = oa
    /\ pChunkRows' = rows
    /\ pAfterFirst' = IF pPass = 1 THEN [oa |-> oa, chunks |-> rows] ELSE pAfterFirst
    /\ pPc' = "idle"

\* the except clause of process_transcript_with_chunking, which copies the
\* object to junk/ unless the copy fails, and then the one of process_key.
\* The clause is `except Exception`: it also catches InterruptedError, which
\* is an OSError
PRaise(oa) ==
    /\ \E copied \in BOOLEAN :
          /\ pJunk' = IF copied
                      THEN pJunk \cup {[key |-> JunkKey(PKey), body |-> pData]}
                      ELSE pJunk
          /\ pExcept' = [tried |-> TRUE, failed |-> pExcept.failed \/ ~copied]
    /\ PReturn(IF pShutdown THEN "int" ELSE "fail", oa, pChunkRows)

\* a run of main takes the key up: list_s3_keys keeps it unless
\* get_processed_keys returned it, and get_processed_keys returns the empty
\* set when its query fails
PListS3Keys ==
    /\ UNCHANGED NotP
    /\ pPc = "idle"
    /\ pPass < MaxPasses
    /\ \E processed_keys \in {pProcessed, {}} :
          INCREMENTAL => PKey \notin processed_keys
    /\ pPass' = pPass + 1
    /\ pShutdown' = FALSE
    /\ pChunks' = <<>>
    /\ pPc' = "entry"
    /\ UNCHANGED <<pData, pEmbedLen, pOaText, pChunkRows, pProcessed, pJunk,
                   pResults, pAfterFirst, pExcept>>

\* signal_handler: shutdown_requested.set()
PSignalHandler ==
    /\ UNCHANGED NotP
    /\ pPc \notin {"off", "idle"}
    /\ ~pShutdown
    /\ pShutdown' = TRUE
    /\ UNCHANGED <<pData, pEmbedLen, pPc, pPass, pChunks, pOaText, pChunkRows,
                   pProcessed, pJunk, pResults, pAfterFirst, pExcept>>

\* process_key up to the call of process_transcript_with_chunking
PProcessKeyEntry ==
    /\ UNCHANGED NotP
    /\ pPc = "entry"
    /\ IF pShutdown
       THEN PReturn("int", pOaText, pChunkRows)
       ELSE /\ pPc' = "chunking"
            /\ UNCHANGED <<pOaText, pChunkRows, pResults, pAfterFirst>>
    /\ UNCHANGED <<pData, pEmbedLen, pPass, pShutdown, pChunks, pProcessed, pJunk,
                   pExcept>>

\* process_transcript_with_chunking from get_object to insert_oa_text_data
PChunking ==
    /\ UNCHANGED NotP
    /\ pPc = "chunking"
    /\ LET w == Chunking(pData.sections)
       IN \/ \* get_object, json.load or the insert raises
             /\ PRaise(pOaText)
             /\ UNCHANGED pChunks
          \/ \* ValueError of the validation, InterruptedError of the loops,
             \* ValueError for a transcript without a valid utterance
             /\ ~SectionsOk(pData) \/ pShutdown \/ w.utts = <<>>
             /\ PRaise(pOaText)
             /\ UNCHANGED pChunks
          \/ /\ SectionsOk(pData) /\ ~pShutdown /\ w.utts # <<>>
             /\ pOaText' = InsertOaTextData(pOaText, w.utts, PKey)
             /\ pChunks' = w.chunks
             /\ pPc' = "embed"
             /\ UNCHANGED <<pChunkRows, pJunk, pResults, pAfterFirst, pExcept>>
    /\ UNCHANGED <<pData, pEmbedLen, pPass, pShutdown, pProcessed>>

\* process_transcript_with_chunking from the shutdown test after the insert
\* to its return
PEmbed ==
    /\ UNCHANGED NotP
    /\ pPc = "embed"
    /\ \/ \* SentenceTransformer(...) or model.encode raises, the shutdown test
          \* before them passed
          /\ ~pShutdown
          /\ PRaise(pOaText)
          /\ UNCHANGED pChunks
       \/ \* InterruptedError of a shutdown test
          /\ pShutdown
          /\ PRaise(pOaText)
          /\ UNCHANGED pChunks
       \/ /\ ~pShutdown
          /\ pChunks' = [i \in 1..Len(pChunks) |->
                            WithEmbedding(pChunks[i], pEmbedLen, PKey)]
          /\ pPc' = "insert"
          /\ UNCHANGED <<pOaText, pChunkRows, pJunk, pResults, pAfterFirst, pExcept>>
    /\ UNCHANGED <<pData, pEmbedLen, pPass, pShutdown, pProcessed>>

\* process_key from the shutdown test after the chunking to the case
\* embedding; an exception rolls the transaction of the connection back
PInsert ==
    /\ UNCHANGED NotP
    /\ pPc = "insert"
    /\ \/ /\ pShutdown
          /\ PReturn("int", pOaText, pChunkRows)
          /\ UNCHANGED pProcessed
       \/ \* AssertionError of the dimension test, or an execute that raises
          /\ ~pShutdown
          /\ \E cause \in {"assert", "execute"} :
                cause = "assert" => \E i \in 1..Len(pChunks) : ~DimensionOk(pChunks[i])
          /\ PReturn("fail", pOaText, pChunkRows)
          /\ UNCHANGED pProcessed
       \/ /\ ~pShutdown
          /\ \A i \in 1..Len(pChunks) : DimensionOk(pChunks[i])
          /\ pChunkRows' = InsertChunks(pChunkRows, pChunks)
          /\ pProcessed' = IF WritesCaseEmbedding(pChunks, pShutdown)
                           THEN pProcessed \cup {PKey} ELSE pProcessed
          /\ pPc' = "last_test"
          /\ UNCHANGED <<pOaText, pResults, pAfterFirst>>
    /\ UNCHANGED <<pData, pEmbedLen, pPass, pShutdown, pChunks, pJunk, pExcept>>

\* process_key: the last shutdown test and the return
PLastTest ==
    /\ UNCHANGED NotP
    /\ pPc = "last_test"
    /\ PReturn(IF pShutdown THEN "int" ELSE "ok", pOaText, pChunkRows)
    /\ UNCHANGED <<pData, pEmbedLen, pPass, pShutdown, pChunks, pProcessed, pJunk,
                   pExcept>>

(***************************************************************************)
(* src/transformers/processors.py: batch_process_files                     *)
(***************************************************************************)
FILES_PER_JOB == 2
CHECKPOINT_FREQUENCY == 2
BATCH_MAX_WORKERS == 2

\* the keys a listing of at most MaxKeys + 1 objects returns
KeyListings == { [i \in 1..n |-> i] : n \in 0..(MaxKeys + 1) }

\* get_job_file_range(all_keys, JOB_START_INDEX, FILES_PER_JOB): the slice of
\* the listing that belongs to the array index
GetJobFileRange(all_keys, index, per_job) ==
    SubSeq(all_keys, index * per_job + 1, Min(Len(all_keys), (index + 1) * per_job))

BInit ==
    /\ bAllKeys \in KeyListings
    /\ bIndex \in 0..1
    /\ bPc = "start"
    /\ bJobKeys = <<>>
    /\ bFut = <<>>
    /\ bCompleted = <<>>
    /\ bProcessed = <<>>
    /\ bFailed = <<>>
    /\ bCounter = 0
    /\ bCheckpoints = <<>>
    /\ bMessages = {}
    /\ bExit = -1

\* the values of the group in a specification that does not use it
BOff ==
    /\ bAllKeys = <<>>
    /\ bIndex = 0
    /\ bPc = "off"
    /\ bJobKeys = <<>>
    /\ bFut = <<>>
    /\ bCompleted = <<>>
    /\ bProcessed = <<>>
    /\ bFailed = <<>>
    /\ bCounter = 0
    /\ bCheckpoints = <<>>
    /\ bMessages = {}
    /\ bExit = -1

\* list_s3_keys, get_job_file_range and ensure_tables_exist: the function
\* returns when there is nothing to do, and an exception of the listing or of
\* the database leaves it before any key is submitted
BStart ==
    /\ UNCHANGED NotB
    /\ bPc = "start"
    /\ LET job_keys == GetJobFileRange(bAllKeys, bIndex, FILES_PER_JOB)
       IN \/ /\ bAllKeys = <<>> \/ job_keys = <<>>
             /\ bPc' = "returned"
             /\ UNCHANGED <<bJobKeys, bExit>>
          \/ /\ bPc' = "raised"
             /\ bExit' = 1
             /\ UNCHANGED bJobKeys
          \/ /\ job_keys # <<>>
             /\ bJobKeys' = job_keys
             /\ bPc' = "submit"
             /\ UNCHANGED bExit
    /\ UNCHANGED <<bAllKeys, bIndex, bFut, bCompleted, bProcessed, bFailed, bCounter,
                   bCheckpoints, bMessages>>

\* for key in job_keys: send_processing_message(key, 'started', ...);
\* futures[executor.submit(process_key, key)] = key
BSubmit ==
    /\ UNCHANGED NotB
    /\ bPc = "submit"
    /\ bFut' = [i \in 1..Len(bJobKeys) |-> "queued"]
    /\ bMessages' = { <<bJobKeys[i], "started">> : i \in 1..Len(bJobKeys) }
    /\ bPc' = "pool"
    /\ UNCHANGED <<bAllKeys, bIndex, bJobKeys, bCompleted, bProcessed, bFailed, bCounter,
                   bCheckpoints, bExit>>

BRunning == { i \in 1..Len(bFut) : bFut[i] = "running" }
BQueued == { i \in 1..Len(bFut) : bFut[i] = "queued" }

\* a free worker thread takes the oldest queued future
BWorkerTake ==
    /\ UNCHANGED NotB
    /\ bPc = "pool"
    /\ BQueued # {}
    /\ Cardinality(BRunning) < BATCH_MAX_WORKERS
    /\ LET i == CHOOSE q \in BQueued : \A r \in BQueued : q <= r
       IN bFut' = [bFut EXCEPT ![i] = "running"]
    /\ UNCHANGED <<bAllKeys, bIndex, bPc, bJobKeys, bCompleted, bProcessed, bFailed,
                   bCounter, bCheckpoints, bMessages, bExit>>

\* process_key(key) on a worker: "Processed: ..." is returned, or the except
\* clause returns "Failed: ...", or int(os.getenv(...)) before the try raises
BProcessKey(i) ==
    /\ UNCHANGED NotB
    /\ i \in BRunning
    /\ \E result \in {"Processed", "Failed", "raised"} :
          bFut' = [bFut EXCEPT ![i] = result]
    /\ bCompleted' = Append(bCompleted, i)
    /\ UNCHANGED <<bAllKeys, bIndex, bPc, bJobKeys, bProcessed, bFailed, bCounter,
                   bCheckpoints, bMessages, bExit>>

\* processed_files[-checkpoint_counter:]
LastFiles(files, n) == SubSeq(files, Len(files) - n + 1, Len(files))

\* the body of `for future in as_completed(futures.keys())`
BAsCompleted ==
    /\ UNCHANGED NotB
    /\ bPc = "pool"
    /\ bCompleted # <<>>
    /\ LET i == Head(bCompleted)
           key == bJobKeys[i]
       IN IF bFut[i] = "Processed"
          THEN LET processed == Append(bProcessed, key)
               IN /\ bProcessed' = processed
                  /\ bMessages' = bMessages \cup {<<key, "completed">>}
                  /\ IF bCounter + 1 >= CHECKPOINT_FREQUENCY
                     THEN /\ bCheckpoints' =
                                Append(bCheckpoints, LastFiles(processed, bCounter + 1))
                          /\ bCounter' = 0
                     ELSE /\ bCounter' = bCounter + 1
                          /\ UNCHANGED bCheckpoints
                  /\ UNCHANGED bFailed
          ELSE \* result.startswith("Failed"), or future.result() raised
               /\ bFailed' = Append(bFailed, key)
               /\ bMessages' = bMessages \cup {<<key, "failed">>}
               /\ UNCHANGED <<bProcessed, bCounter, bCheckpoints>>
    /\ bCompleted' = Tail(bCompleted)
    /\ UNCHANGED <<bAllKeys, bIndex, bPc, bJobKeys, bFut, bExit>>

\* the job always reports success
BatchAlwaysSucceeds(total_failed) == 0

\* if total_failed > 0: sys.exit(1) else: sys.exit(0)
BatchExitStatus(total_failed) == IF total_failed > 0 THEN 1 ELSE 0

\* after the with block: the final checkpoint, the summary and sys.exit
BFinish ==
    /\ UNCHANGED NotB
    /\ bPc = "pool"
    /\ Len(bProcessed) + Len(bFailed) = Len(bJobKeys)
    /\ bCheckpoints' = IF bCounter > 0 /\ bProcessed # <<>>
                       THEN Append(bCheckpoints, LastFiles(bProcessed, bCounter))
                       ELSE bCheckpoints
    /\ bExit' = BatchExitStatus(Len(bFailed))
    /\ bPc' = "exited"
    /\ UNCHANGED <<bAllKeys, bIndex, bJobKeys, bFut, bCompleted, bProcessed, bFailed,
                   bCounter, bMessages>>

(***************************************************************************)
(* src/transformers/helpers.py: truncate_to_tokens and the token limit of  *)
(* a section chunk.  The tokenizer is AutoTokenizer.from_pretrained of the *)
(* configured model: a subword vocabulary matched longest piece first, an  *)
(* unknown token for what the vocabulary does not cover, and a decode that *)
(* leaves special tokens out.                                              *)
(***************************************************************************)
\* the unknown token, one of the special tokens of the tokenizer
Unk == <<"<unk>">>

\* the pieces of the vocabulary
Vocab == { <<"a">>, <<"b">>, <<"a", "b">>, <<" ">> }

\* words a text block is made of; "?" is a character outside the vocabulary
TextWords == { <<"a">>, <<"a", "b">>, <<"a", "?", "b">> }

RECURSIVE JoinWords(_)
\* the words of a text, one blank between two of them
JoinWords(words) ==
    IF words = <<>> THEN <<>>
    ELSE IF Len(words) = 1 THEN words[1]
    ELSE words[1] \o <<" ">> \o JoinWords(Tail(words))

\* section texts: a kept text block has more than 3 words
SectionTexts ==
    { JoinWords(w) : w \in UNION { [1..n -> TextWords] : n \in 4..MaxWords } }

\* whether the piece stands in the text at position i
PieceAt(piece, text, i) ==
    /\ i + Len(piece) - 1 <= Len(text)
    /\ SubSeq(text, i, i + Len(piece) - 1) = piece

RECURSIVE EncodeFrom(_, _)
EncodeFrom(text, i) ==
    IF i > Len(text) THEN <<>>
    ELSE LET fits == { piece \in Vocab : PieceAt(piece, text, i) }
         IN IF fits = {}
            THEN <<Unk>> \o EncodeFrom(text, i + 1)
            ELSE LET piece == CHOOSE f \in fits : \A g \in fits : Len(g) <= Len(f)
                 IN <<piece>> \o EncodeFrom(text, i + Len(piece))

\* tokenizer.encode(text, add_special_tokens=False)
Encode(text) == EncodeFrom(text, 1)

RECURSIVE Decode(_)
\* tokenizer.decode(tokens, skip_special_tokens=True)
Decode(tokens) ==
    IF tokens = <<>> THEN <<>>
    ELSE (IF Head(tokens) = Unk THEN <<>> ELSE Head(tokens)) \o Decode(Tail(tokens))

\* truncation by characters instead of tokens
TruncateToChars(text, max_tokens) ==
    IF Len(text) <= max_tokens THEN text ELSE SubSeq(text, 1, max_tokens)

\* truncate_to_tokens(text, max_tokens)
TruncateToTokens(text, max_tokens) ==
    LET tokens == Encode(text)
    IN IF Len(tokens) <= max_tokens THEN text
       ELSE Decode(SubSeq(tokens, 1, max_tokens))

TInit ==
    /\ tText \in SectionTexts
    /\ tPc = "walk"
    /\ tChunkText = <<>>
    /\ tTokenCount = 0

\* the values of the group in a specification that does not use it
TOff ==
    /\ tText = <<>>
    /\ tPc = "off"
    /\ tChunkText = <<>>
    /\ tTokenCount = 0

\* `if section_texts:` of process_transcript_with_chunking: the token count,
\* the truncation of a text over the limit, and the section_chunk dict
TSectionChunk ==
    /\ UNCHANGED NotT
    /\ tPc = "walk"
    /\ LET token_count == Len(Encode(tText))
       IN IF token_count > MAX_TOKENS
          THEN /\ tChunkText' = TruncateToTokens(tText, MAX_TOKENS)
               /\ tTokenCount' = MAX_TOKENS
          ELSE /\ tChunkText' = tText
               /\ tTokenCount' = token_count
    /\ tPc' = "chunk"
    /\ UNCHANGED tText

(***************************************************************************)
(* src/oyez.py: the local download of case fulls and oral arguments.       *)
(***************************************************************************)
\* the IDs of the case summaries; the case with ID c lists one oral argument,
\* whose id is c
OyezIds == 1..MaxCases

\* 'data/case/full/case_full_{}.json'.format(case_summary['ID'])
CaseFullFile(id) == <<"d", "a", "t", "a", "/", "c", "a", "s", "e", "/", "f", "u", "l", "l", "/", "c", "a", "s", "e", "_", "f", "u", "l", "l", "_">> \o StrOfNat(id) \o JsonSuffix

\* 'data/oa/oa_{}.json'.format(oa['id'])
OaFile(id) == <<"d", "a", "t", "a", "/", "o", "a", "/", "o", "a", "_">> \o StrOfNat(id) \o JsonSuffix

OyezPaths == { CaseFullFile(c) : c \in OyezIds } \cup { OaFile(a) : a \in OyezIds }

\* os.listdir(path): the names of the files of the directory
ListDir(path) ==
    { Last(Split(f, "/")) :
        f \in { g \in OyezPaths : StartsWith(g, path) /\ oFiles[g] # "absent" } }

\* case_full_file.split('/')[3] in existing_case_fulls
FullExists(file, existing) == Split(file, "/")[4] \in existing

\* oa_file.split('/')[2] in existing_oas
OaExists(file, existing) == Split(file, "/")[3] \in existing

\* the state of data/ that earlier runs without a failure leave: documents
\* completely written, an oral argument only next to its case full
DownloadedBefore ==
    { files \in [OyezPaths -> {"absent", "complete"}] :
        \A c \in OyezIds :
            files[OaFile(c)] = "complete" => files[CaseFullFile(c)] = "complete" }

OInit ==
    /\ oFiles \in DownloadedBefore
    /\ oExistingFulls = {}
    /\ oExistingOas = {}
    /\ oPc = "start"
    /\ oNext = 1
    /\ oTodo = {}
    /\ oRun = 1

\* the values of the group in a specification that does not use it
OOff ==
    /\ oFiles = <<>>
    /\ oExistingFulls = {}
    /\ oExistingOas = {}
    /\ oPc = "off"
    /\ oNext = 1
    /\ oTodo = {}
    /\ oRun = 1

\* main: check_existing_files()
OCheckExistingFiles ==
    /\ UNCHANGED NotO
    /\ oPc = "start"
    /\ oExistingFulls' = ListDir(<<"d", "a", "t", "a", "/", "c", "a", "s", "e", "/", "f", "u", "l", "l">>)
    /\ oExistingOas' = ListDir(<<"d", "a", "t", "a", "/", "o", "a">>)
    /\ oPc' = "summaries"
    /\ UNCHANGED <<oFiles, oNext, oTodo, oRun>>

\* get_case_summaries: get_json(url) returns, or raises out of main
OGetCaseSummaries ==
    /\ UNCHANGED NotO
    /\ oPc = "summaries"
    /\ oPc' \in {"fulls", "raised"}
    /\ oNext' = 1
    /\ UNCHANGED <<oFiles, oExistingFulls, oExistingOas, oTodo, oRun>>

\* with open(file, 'w') as dest: json.dump(get_json(href), dest).  The file
\* is created empty by open; get_json then returns and the document is
\* written, or raises and the with block closes the empty file
OpenThenFetch(file) ==
    \/ /\ oFiles' = [oFiles EXCEPT ![file] = "complete"]
       /\ UNCHANGED oPc
    \/ /\ oFiles' = [oFiles EXCEPT ![file] = "empty"]
       /\ oPc' = "raised"

\* get_case_fulls: one turn of `for case_summary in case_summaries_json`
OGetCaseFull ==
    /\ UNCHANGED NotO
    /\ oPc = "fulls"
    /\ oNext <= MaxCases
    /\ IF FullExists(CaseFullFile(oNext), oExistingFulls)
       THEN UNCHANGED <<oFiles, oPc>>
       ELSE OpenThenFetch(CaseFullFile(oNext))
    /\ oNext' = oNext + 1
    /\ UNCHANGED <<oExistingFulls, oExistingOas, oTodo, oRun>>

\* get_case_fulls returns and get_oas starts: an empty existing_case_fulls is
\* replaced by the listing of data/case/full
OGetOasEnter ==
    /\ UNCHANGED NotO
    /\ oPc = "fulls"
    /\ oNext > MaxCases
    /\ oTodo' = IF oExistingFulls = {} THEN ListDir(<<"d", "a", "t", "a", "/", "c", "a", "s", "e", "/", "f", "u", "l", "l">>) ELSE oExistingFulls
    /\ oPc' = "oas"
    /\ UNCHANGED <<oFiles, oExistingFulls, oExistingOas, oNext, oRun>>

\* get_oas: one turn of `for case_full in existing_case_fulls`, in the order
\* of the listing, which is arbitrary; json.load raises on an empty file
OGetOa(name) ==
    /\ UNCHANGED NotO
    /\ oPc = "oas"
    /\ name \in oTodo
    /\ LET id == CHOOSE c \in OyezIds : Last(Split(CaseFullFile(c), "/")) = name
       IN IF oFiles[CaseFullFile(id)] = "empty"
          THEN oPc' = "raised" /\ UNCHANGED oFiles
          ELSE IF OaExists(OaFile(id), oExistingOas)
               THEN UNCHANGED <<oFiles, oPc>>
               ELSE OpenThenFetch(OaFile(id))
    /\ oTodo' = oTodo \ {name}
    /\ UNCHANGED <<oExistingFulls, oExistingOas, oNext, oRun>>

\* get_oas and main return
OReturn ==
    /\ UNCHANGED NotO
    /\ oPc = "oas"
    /\ oTodo = {}
    /\ oPc' = "done"
    /\ UNCHANGED <<oFiles, oExistingFulls, oExistingOas, oNext, oTodo, oRun>>

\* the script is started again
ONextRun ==
    /\ UNCHANGED NotO
    /\ oPc \in {"done", "raised"}
    /\ oRun < MaxRuns
    /\ oRun' = oRun + 1
    /\ oPc' = "start"
    /\ UNCHANGED <<oFiles, oExistingFulls, oExistingOas, oNext, oTodo>>

(***************************************************************************)
(* Specifications.                                                         *)
(***************************************************************************)
IncrInit == HInit /\ MOff /\ GOff /\ XOff /\ SOff /\ POff /\ BOff /\ TOff /\ OOff

IncrNext ==
    \/ HStart
    \/ HGetExistingOAIds
    \/ HProcessCase
    \/ \E j \in 1..MaxOAs : HProcessOa(j)
    \/ HFinish

SpecIncr == IncrInit /\ [][IncrNext]_vars

MainInit == HOff /\ MInit /\ GOff /\ XOff /\ SOff /\ POff /\ BOff /\ TOff /\ OOff

MainNext ==
    \/ MStart
    \/ MGetCases
    \/ MCase
    \/ MSubmit
    \/ MWorkerTake
    \/ \E t \in 1..MaxTasks : MProcessOa(t)
    \/ MCollect
    \/ MSummary

SpecMain == MainInit /\ [][MainNext]_vars

MainRunsInit == HOff /\ MRunsInit /\ GOff /\ XOff /\ SOff /\ POff /\ BOff /\ TOff /\ OOff

SpecMainRuns == MainRunsInit /\ [][MainNext]_vars


GateNext ==
    \/ GTick
    \/ \E th \in Threads : GCall(th)
    \/ \E th \in Threads : GGate(th)
    \/ \E th \in Threads : GWakeUp(th)
    \/ \E th \in Threads : GResponseOk(th)
    \/ \E th \in Threads : GResponseFail(th)

GateInit == HOff /\ MOff /\ GInitWith("gate_in_retry") /\ XOff /\ SOff /\ POff /\ BOff /\ TOff /\ OOff

SpecGate == GateInit /\ [][GateNext]_vars

SvcGateInit == HOff /\ MOff /\ GInitWith("retry_in_gate") /\ XOff /\ SOff /\ POff /\ BOff /\ TOff /\ OOff

SpecSvcGate == SvcGateInit /\ [][GateNext]_vars

XfInit == HOff /\ MOff /\ GOff /\ XInit /\ SOff /\ POff /\ BOff /\ TOff /\ OOff

XfNext ==
    \/ \E signum \in {SIGINT, SIGTERM} : XSignalHandler(signum)
    \/ XMain
    \/ XWorker

SpecXf == XfInit /\ [][XfNext]_vars

\* the scheduler runs main and the workers; signals need not come
SpecXfFair == SpecXf /\ WF_vars(XMain) /\ WF_vars(XWorker)

SvcInit == HOff /\ MOff /\ GOff /\ XOff /\ SInit /\ POff /\ BOff /\ TOff /\ OOff

SvcNext ==
    \/ \E signum \in {SIGINT, SIGTERM} : SSignalHandler(signum)
    \/ SSetup
    \/ SGetExistingOAIds
    \/ SPoolEnter
    \/ STermLoop
    \/ \E t \in SvcTasks : SAsCompleted(t)
    \/ STermDone
    \/ SPoolExit
    \/ SUpload
    \/ SWriteSummary
    \/ \E t \in SvcTasks : SWorkerTake(t)
    \/ \E t \in SvcTasks : SProcessCaseEnter(t)
    \/ \E t \in SvcTasks : SProcessCaseReturn(t)

SpecSvc == SvcInit /\ [][SvcNext]_vars

KeyInit == HOff /\ MOff /\ GOff /\ XOff /\ SOff /\ PInit /\ BOff /\ TOff /\ OOff

KeyNext ==
    \/ PListS3Keys
    \/ PSignalHandler
    \/ PProcessKeyEntry
    \/ PChunking
    \/ PEmbed
    \/ PInsert
    \/ PLastTest

SpecKey == KeyInit /\ [][KeyNext]_vars

OyezInit == HOff /\ MOff /\ GOff /\ XOff /\ SOff /\ POff /\ BOff /\ TOff /\ OInit

OyezNext ==
    \/ OCheckExistingFiles
    \/ OGetCaseSummaries
    \/ OGetCaseFull
    \/ OGetOasEnter
    \/ \E name \in oTodo : OGetOa(name)
    \/ OReturn
    \/ ONextRun

SpecOyez == OyezInit /\ [][OyezNext]_vars

BatchInit == HOff /\ MOff /\ GOff /\ XOff /\ SOff /\ POff /\ BInit /\ TOff /\ OOff

BatchNext ==
    \/ BStart
    \/ BSubmit
    \/ BWorkerTake
    \/ \E i \in 1..FILES_PER_JOB : BProcessKey(i)
    \/ BAsCompleted
    \/ BFinish

SpecBatch == BatchInit /\ [][BatchNext]_vars

TruncateInit == HOff /\ MOff /\ GOff /\ XOff /\ SOff /\ POff /\ BOff /\ TInit /\ OOff

TruncateNext == TSectionChunk

SpecTruncate == TruncateInit /\ [][TruncateNext]_vars


(***************************************************************************)
(* Claims on src/ingest/helpers.py (SpecIncr).                             *)
(***************************************************************************)
TaskPositions == { hTasks[j].idx : j \in 1..Len(hTasks) }

\* C1: once process_case has read the listing, the tasks it returned are
\* exactly the listing entries whose id is not in existing_oa_ids, in listing
\* order, and no entry whose id is in existing_oa_ids is fetched.
C1_IncrementalFilter ==
    hCaseOk =>
        /\ TaskPositions = { i \in 1..Len(hListing) : hListing[i].id \notin hExisting }
        /\ \A j \in 1..Len(hTasks) : hTasks[j].oa = hListing[hTasks[j].idx]
        /\ \A j, k \in 1..Len(hTasks) : j < k => hTasks[j].idx < hTasks[k].idx
        /\ \A i \in hFetched : hListing[i].id \notin hExisting

\* a rerun in which one entry is skipped as existing and another is fetched
C1_Witness ==
    /\ hCaseOk
    /\ hRun = 2
    /\ hStats.existing >= 1
    /\ Len(hTasks) >= 1
    /\ hFetched # {}

\* C2: an OA whose document an earlier run stored under
\* raw/oa/{id}_{timestamp}.json is recognised by the next run: with the store
\* listed completely, process_case returns no task for it.
C2_StoreKeyRoundTrip ==
    (hCaseOk /\ hListOk) => \A i \in hStoredBefore : i \notin TaskPositions

(***************************************************************************)
(* Claims on src/ingest/main.py (SpecMain, SpecMainRuns).                  *)
(***************************************************************************)
\* C3: after any number of consecutive runs over an unchanged corpus the raw
\* namespace holds at most one object per oa_id.
C3_StoredOncePerOAId ==
    \A k1, k2 \in mStore : KeyOAId(k1) = KeyOAId(k2) => k1 = k2

Finished == { t \in 1..Len(mFut) : mFut[t] \in {"none", "raised", "size"} }

\* C7: a task that raises never takes main out of the result loop; when main
\* reaches the summary every submitted task has run and its result was taken,
\* and total_uploaded counts exactly the tasks that returned a size.
C7_FailureIsolation ==
    /\ mPhase # "aborted"
    /\ mPhase = "pool" => ENABLED MainNext
    /\ mPhase = "done" =>
          /\ Finished = 1..Len(mTasks)
          /\ mCollected = 1..Len(mTasks)
          /\ mUploaded = Cardinality({ t \in 1..Len(mFut) : mFut[t] = "size" })

\* main is at the summary, a task raised, and a task submitted after it ran
\* and was counted
C7_Witness ==
    /\ mPhase = "done"
    /\ \E t, u \in 1..Len(mFut) :
          /\ t < u
          /\ mFut[t] = "raised"
          /\ mFut[u] = "size"
          /\ mUploaded >= 1

(***************************************************************************)
(* Claims on the rate gate and the retry loop (SpecGate, SpecSvcGate).     *)
(***************************************************************************)
\* C4: the gate lets at most one call through per period: consecutive
\* admissions lie in periods that do not overlap, an admission lies inside
\* its period, and a caller refused in a period sleeps until that period is
\* over; the period had its admission.
C4_OnePerPeriod ==
    /\ Len(gAdmits) = 2 => gAdmits[1].win + PeriodTicks <= gAdmits[2].win
    /\ \A i \in 1..Len(gAdmits) :
          gAdmits[i].win <= gAdmits[i].time /\ gAdmits[i].time < gAdmits[i].win + PeriodTicks
    /\ \A th \in Threads :
          gPc[th] = "sleep" =>
              /\ gWake[th] = gRefusedIn[th] + PeriodTicks
              /\ gAdmits # <<>>
              /\ gAdmits[Len(gAdmits)].win >= gRefusedIn[th]

\* a caller is refused while another thread holds the slot of the period,
\* after an earlier period had its own admission
C4_Witness ==
    /\ Len(gAdmits) = 2
    /\ \E th \in Threads : gPc[th] = "sleep"

\* C5: request makes at most 3 attempts, returns at the first success with
\* no attempt after it, and raises exactly when 3 attempts in a row failed.
C5_RetryBound ==
    \A th \in Threads :
        /\ Len(gOutcomes[th]) <= 3
        /\ \A i \in 1..Len(gOutcomes[th]) :
              gOutcomes[th][i] = "ok" => i = Len(gOutcomes[th])
        /\ gPc[th] = "returned" <=>
              (gOutcomes[th] # <<>> /\ Last(gOutcomes[th]) = "ok")
        /\ gPc[th] = "failed" <=> gOutcomes[th] = <<"fail", "fail", "fail">>

\* one call failed after three attempts and another returned on a retry
C5_Witness ==
    \E th, ot \in Threads :
        /\ gPc[th] = "failed"
        /\ gPc[ot] = "returned"
        /\ Len(gOutcomes[ot]) >= 2

\* C6: every GET attempt, the first and each retry, went through the gate:
\* no thread has issued more GETs than the gate let through for it.
C6_EveryAttemptAdmitted ==
    \A th \in Threads : gGets[th] <= gAdmitted[th]

(***************************************************************************)
(* Claims on src/transformers/main.py (SpecXf, SpecXfFair).                *)
(***************************************************************************)
\* C8: with no signal ever received and every process_key call returning,
\* main leaves the result loop and the process exits with status 0 or 1.
C8_Terminates ==
    <>(xSignal # 0 \/ (xPc = "exited" /\ xExit \in {0, 1}))

\* C9: a process that received signal s after the handlers were installed
\* exits with status 128 + s.
C9_InterruptedExitCode ==
    (xPc = "exited" /\ xSignal # 0) => xExit = 128 + xSignal

(***************************************************************************)
(* Claims on main of src/services/ingest/main.py (SpecSvc).                *)
(***************************************************************************)
\* C10: a run that received a termination signal after the enumeration of
\* the terms had begun has, when the process exits, persisted one summary that
\* holds the counters accumulated so far and is marked interrupted.
C10_InterruptedSummary ==
    (sPc = "exited" /\ sSignal # 0 /\ sSignalAt \in {"term", "cases", "pool_exit"}) =>
        /\ Len(sSummaries) = 1
        /\ "interrupted" \in DOMAIN sSummaries[1]
        /\ sSummaries[1].interrupted = TRUE
        /\ sSummaries[1].total_cases = sCounters.total_cases
        /\ sSummaries[1].processed_terms = sCounters.processed_terms

\* the cases whose records are in an uploaded term file
StoredOAs == { t \in sOAs : t[1] \in sUploads }

\* C11: when an interrupted run has exited, the records of every case whose
\* fetch had completed when the signal arrived are in the store, which is
\* what lets the next run skip them.
C11_FetchedBeforeSignalStored ==
    (sPc = "exited" /\ sSignal # 0) => sFetchedAtSignal \subseteq StoredOAs

\* C12: when the grace period of graceful_shutdown_executor has expired with a
\* worker still running, main goes on to the final summary and the exit
\* without waiting for that worker.
C12_ProceedsAfterGrace ==
    (xPc = "with_exit" /\ xGraceExpired) => ENABLED XWithExit

\* the keys not invoked when the flag was set do no work: each is still
\* unsubmitted or queued, was cancelled, or returned at its test on entry
NotInvokedStaySkipped ==
    \A k \in xAtFlag.notInvoked :
        /\ k \notin xTouched
        /\ xFut[k] \in {"none", "pending", "started", "cancelled", "int"}

\* C13 (amended): once the flag is set, a key whose process_key was not yet
\* invoked does no store read or database write (it is cancelled or skipped
\* on entry), and at most one further key is submitted: the one whose
\* shutdown test in the submission loop had passed before the flag was set.
C13_NoNewWorkAfterFlag ==
    xAtFlag.set =>
        /\ NotInvokedStaySkipped
        /\ Cardinality(XSubmitted \ xAtFlag.submitted) <= 1

\* C13 as stated: once the flag is set no further key is submitted at all.
C13_NoFurtherSubmit ==
    xAtFlag.set =>
        /\ NotInvokedStaySkipped
        /\ XSubmitted = xAtFlag.submitted

\* an interrupted run has exited, one key was skipped on entry and another
\* was cancelled before it started
C13_Witness ==
    /\ xPc = "exited"
    /\ xAtFlag.set
    /\ \E k \in xAtFlag.notInvoked : xFut[k] = "int"
    /\ \E k \in xAtFlag.notInvoked : xFut[k] = "cancelled"

(***************************************************************************)
(* Claims on process_key and src/transformers/helpers.py (SpecKey).        *)
(***************************************************************************)
\* no two rows of a table share the key of its ON CONFLICT clause
OneRowPerKey ==
    /\ \A i, j \in 1..Len(pOaText) :
          pOaText[i].utterance_index = pOaText[j].utterance_index => i = j
    /\ \A i, j \in 1..Len(pChunkRows) :
          pChunkRows[i].section_id = pChunkRows[j].section_id => i = j

\* C14: when the same raw key has been processed again, successfully, with
\* the document and the embedding unchanged, oa_text and
\* document_chunk_embeddings are exactly as they were after the first
\* processing, with one row per (case_id, utterance_index) and per
\* (case_id, section_id).
C14_UpsertConvergence ==
    (/\ pPc = "idle"
     /\ Len(pResults) >= 2
     /\ \A i \in 1..Len(pResults) : pResults[i] = "ok") =>
        /\ pOaText = pAfterFirst.oa
        /\ pChunkRows = pAfterFirst.chunks
        /\ OneRowPerKey

\* the key was processed twice with success and left rows in both tables
C14_Witness ==
    /\ pPc = "idle"
    /\ pResults = <<"ok", "ok">>
    /\ Len(pOaText) >= 2
    /\ pChunkRows # <<>>

\* the words of a text: the non-empty pieces between blanks
Words(s) == SelectSeq(Split(s, " "), LAMBDA piece : piece # <<>>)

RECURSIVE KeptTexts(_)
\* the stripped texts of the blocks with at least 4 words, in document order
KeptTexts(items) ==
    IF items = <<>> THEN <<>>
    ELSE LET it == Head(items)
         IN IF it.t = "str" /\ Len(Words(it.s)) >= 4
            THEN <<Strip(it.s)>> \o KeptTexts(Tail(items))
            ELSE KeptTexts(Tail(items))

RECURSIVE OffsetOf(_, _)
\* the sum over the first k texts of (length + 1)
OffsetOf(texts, k) ==
    IF k = 0 THEN 0 ELSE OffsetOf(texts, k - 1) + Len(texts[k]) + 1

\* C15: the utterances process_transcript_with_chunking hands to oa_text are
\* the blocks whose stripped text has at least 4 words, in document order;
\* the k-th of them (from 0) has utterance_index k and char_start_offset the
\* sum of (length + 1) over the kept ones before it, whichever pass of the
\* same document wrote them.
C15_DenseStableIndexing ==
    pPc = "embed" =>
        LET kept == KeptTexts(pData.sections)
        IN /\ Len(pOaText) = Len(kept)
           /\ \A k \in 1..Len(kept) :
                 /\ pOaText[k].utterance_index = k - 1
                 /\ pOaText[k].text = kept[k]
                 /\ pOaText[k].char_start_offset = OffsetOf(kept, k - 1)

\* a document of one section in which a block was dropped and two were kept,
\* normalized for the second time
C15_Witness ==
    /\ pPc = "embed"
    /\ pPass = 2
    /\ Len(pData.sections) = 4
    /\ \A i \in 2..4 : pData.sections[i].t # "section"
    /\ Len(pOaText) = 2
    /\ pOaText[2].char_start_offset > 0

\* C16: every committed row of document_chunk_embeddings has a vector whose
\* length is the row's embedding_dimension, which is the configured model
\* dimension.
C16_DimensionInvariant ==
    \A i \in 1..Len(pChunkRows) :
        /\ Len(pChunkRows[i].vector) = pChunkRows[i].embedding_dimension
        /\ pChunkRows[i].embedding_dimension = MODEL_DIMENSION

\* chunk rows are committed
C16_Witness == pChunkRows # <<>> /\ pResults # <<>>

\* C17: when the embedding function returns vectors of the wrong length, no
\* row of the document is committed to oa_text or document_chunk_embeddings.
C17_MismatchWritesNothing ==
    pEmbedLen # MODEL_DIMENSION => pOaText = <<>> /\ pChunkRows = <<>>

\* the junk object that holds the original bytes of the document
JunkCopy == [key |-> <<"j", "u", "n", "k", "/">> \o Last(Split(PKey, "/")),
             body |-> pData]

\* C18 (amended): for a document whose transcript.sections is missing, not a
\* list or empty, process_key returns without raising: a failure result, or
\* an interrupted result when shutdown was requested; no row of the document
\* is written; junk/ holds nothing but the copy of the original bytes, and
\* holds it once the except clause has run with no copy failing.
C18_StructuralValidation ==
    (~SectionsOk(pData) /\ pPc = "idle" /\ pResults # <<>>) =>
        /\ \A i \in 1..Len(pResults) : pResults[i] \in {"fail", "int"}
        /\ Last(pResults) = "int" => pShutdown
        /\ pOaText = <<>> /\ pChunkRows = <<>>
        /\ pJunk \subseteq {JunkCopy}
        /\ (pExcept.tried /\ ~pExcept.failed) => pJunk = {JunkCopy}

\* C18 as stated: the result is a failure and the copy is in junk/.
C18_AlwaysFailedAndJunked ==
    (~SectionsOk(pData) /\ pPc = "idle" /\ pResults # <<>>) =>
        /\ Last(pResults) = "fail"
        /\ pOaText = <<>> /\ pChunkRows = <<>>
        /\ pJunk = {JunkCopy}

\* a document without valid sections was processed, failed and was copied
C18_Witness ==
    /\ ~SectionsOk(pData)
    /\ pPc = "idle"
    /\ pResults = <<"fail">>
    /\ pJunk = {JunkCopy}

\* C19: a key for which process_key returned a successful result is in
\* transcript_embeddings, whose s3_key values get_processed_keys returns, and
\* is not taken up by a later run.
C19_ProcessedKeySkipped ==
    \A i \in 1..Len(pResults) :
        pResults[i] = "ok" => (PKey \in pProcessed /\ pPass = i)

(***************************************************************************)
(* Claim on the term loop of src/ingest/main.py (SpecMain).                *)
(***************************************************************************)
RECURSIVE ListedCases(_)
\* number of case entries in the lists of the terms from t on that were read
ListedCases(t) ==
    IF t >= END_TERM THEN 0
    ELSE (IF mTermLog[t] = "listed" THEN Len(mCorpus[t]) ELSE 0) + ListedCases(t + 1)

\* C20: a term whose case-list request fails or returns a non-list adds no
\* case to the counters and no task to the work list, the terms after it are
\* still visited, and main goes on to the pool instead of stopping.
C20_TermSkip ==
    /\ \A t \in Terms :
          mTermLog[t] = "failed" =>
              \A i \in 1..Len(mTasks) : mTasks[i].term # t
    /\ mPhase \in {"term", "case"} =>
          \A t \in Terms : t < mTerm => mTermLog[t] # "none"
    /\ mPhase \in {"submit", "pool", "done"} =>
          /\ \A t \in Terms : mTermLog[t] # "none"
          /\ mCount.cases_total = ListedCases(START_TERM)
    /\ (mPhase = "submit" /\ \E t \in Terms : mTermLog[t] = "failed") =>
          ENABLED MSubmit

\* the request of the first term failed, the term after it was listed and
\* gave a task, and the run reached its summary
C20_Witness ==
    /\ mPhase = "done"
    /\ mTermLog[START_TERM] = "failed"
    /\ \E t \in Terms :
          /\ t > START_TERM
          /\ mTermLog[t] = "listed"
          /\ \E i \in 1..Len(mTasks) : mTasks[i].term = t

(***************************************************************************)
(* Claims on the case loop of src/ingest/main.py (SpecMain).               *)
(***************************************************************************)
RECURSIVE TasksOfLog(_)
\* the work units of the first n iterations: those of the cases whose full
\* record was read, in the order of the iterations
TasksOfLog(n) ==
    IF n = 0 THEN <<>>
    ELSE LET e == mCaseLog[n]
         IN TasksOfLog(n - 1) \o
            (IF e.outcome = "read"
             THEN MainProcessCase(e.term, mCorpus[e.term][e.pos].oas)
             ELSE <<>>)

\* iterations that add one to cases_skipped
SkippedEntries ==
    { i \in 1..Len(mCaseLog) :
        \/ mCaseLog[i].outcome # "read"
        \/ mCorpus[mCaseLog[i].term][mCaseLog[i].pos].oas = <<>> }

\* the iteration after entry i is the next case of the same term, or the loop
\* stands before it
NextCaseFollows(i) ==
    LET e == mCaseLog[i]
    IN e.pos < Len(mCorpus[e.term]) =>
          IF i < Len(mCaseLog)
          THEN mCaseLog[i + 1].term = e.term /\ mCaseLog[i + 1].pos = e.pos + 1
          ELSE /\ mPhase = "case"
               /\ mTerm = e.term
               /\ mCases # <<>>
               /\ Head(mCases) = mCorpus[e.term][e.pos + 1]

\* C21: a case whose full record cannot be fetched is counted as skipped and
\* adds no work unit; the case after it in the same term is visited next, and
\* the work list holds exactly the units of the cases that were read.
C21_CaseFetchFailure ==
    /\ mPhase # "aborted"
    /\ mTasks = TasksOfLog(Len(mCaseLog))
    /\ mCount.cases_skipped = Cardinality(SkippedEntries)
    /\ mCount.cases_total = Len(mCaseLog)
    /\ \A i \in 1..Len(mCaseLog) :
          mCaseLog[i].outcome = "process_case_exception" =>
              /\ i \in SkippedEntries
              /\ NextCaseFollows(i)

\* the fetch of a case failed, the case after it in the same term was read and
\* gave a work unit, and the run reached its summary
C21_Witness ==
    /\ mPhase = "done"
    /\ \E i \in 1..Len(mCaseLog) :
          /\ mCaseLog[i].outcome = "process_case_exception"
          /\ i < Len(mCaseLog)
          /\ mCaseLog[i + 1].term = mCaseLog[i].term
          /\ mCaseLog[i + 1].outcome = "read"
          /\ mTasks # <<>>

\* junk records of the run that carry the context
JunkWith(context) == { j \in 1..Len(mJunk) : mJunk[j] = context }

\* iterations that ended with the outcome and left n junk records
EntriesWith(outcome, n) ==
    { i \in 1..Len(mCaseLog) : mCaseLog[i].outcome = outcome /\ mCaseLog[i].junk = n }

Malformed == {"non_dict_case", "missing_docket_number"}

\* C22: a case entry that is no map, or a map without a usable docket_number,
\* gets no fetch and gives no work unit, the next case follows it, and it
\* leaves at most one junk record with its context: one when put_object
\* accepts the write, none when put_object raises.
C22_MalformedCase ==
    /\ mTasks = TasksOfLog(Len(mCaseLog))
    /\ \A i \in 1..Len(mCaseLog) :
          LET e == mCaseLog[i]
              case == mCorpus[e.term][e.pos]
          IN /\ e.outcome = "non_dict_case" <=> ~case.dict
             /\ e.outcome = "missing_docket_number" <=> (case.dict /\ ~case.docket)
             /\ e.outcome \in Malformed =>
                   /\ ~e.fetched
                   /\ e.junk \in {0, 1}
                   /\ i \in SkippedEntries
                   /\ NextCaseFollows(i)
    /\ \A c \in Malformed :
          /\ Cardinality(JunkWith(c)) = Cardinality(EntriesWith(c, 1))
          /\ \A n \in 2..MaxCases : EntriesWith(c, n) = {}

\* C22 as stated: every malformed case entry leaves exactly one junk record
C22_ExactlyOneJunkRecord ==
    \A c \in Malformed :
        Cardinality(JunkWith(c)) =
            Cardinality({ i \in 1..Len(mCaseLog) : mCaseLog[i].outcome = c })

\* a case without docket_number left its one junk record and no work unit,
\* the case after it in the same term was read and gave one, and the run
\* reached its summary
C22_Witness ==
    /\ mPhase = "done"
    /\ \E i \in EntriesWith("missing_docket_number", 1) :
          /\ i < Len(mCaseLog)
          /\ mCaseLog[i + 1].term = mCaseLog[i].term
          /\ mCaseLog[i + 1].outcome = "read"
    /\ mJunk = <<"missing_docket_number">>
    /\ mTasks # <<>>

(***************************************************************************)
(* Claim on batch_process_files (SpecBatch).                               *)
(***************************************************************************)
\* positions of the job keys whose future gave "Failed: ..." or raised
FailedFutures == { i \in 1..Len(bFut) : bFut[i] \in {"Failed", "raised"} }

FailedUnits == { t \in 1..Len(mFut) : mFut[t] \in {"none", "raised"} }

\* C24: a completed ingest run exits with status 1 when an OA work unit
\* failed and with status 0 when none did.
C24_CompletionExitCode ==
    mPhase = "done" =>
        MExitStatus = (IF FailedUnits # {} THEN 1 ELSE 0)

\* iterations that made a junk write
JunkContexts == Malformed \cup {"process_case_exception"}

\* C25: when put_object fails inside log_junk_to_s3 the case is still counted
\* as skipped, the case after it is visited, and the work list is the one the
\* cases that were read give, whatever became of the junk writes.
C25_JunkFailureNotEscalated ==
    /\ mPhase # "aborted"
    /\ mCount.cases_skipped = Cardinality(SkippedEntries)
    /\ Len(mJunk) <= Len(mCaseLog)
    /\ \A i \in 1..Len(mCaseLog) :
          (mCaseLog[i].outcome \in JunkContexts /\ mCaseLog[i].junk = 0) =>
              /\ i \in SkippedEntries
              /\ NextCaseFollows(i)
              /\ TasksOfLog(i) = TasksOfLog(i - 1)
    /\ mPhase \in {"submit", "pool", "done"} =>
          mTasks = TasksOfLog(Len(mCaseLog))

\* the junk write of a malformed case failed, the case after it in the same
\* term was read and gave a work unit, and the run reached its summary
C25_Witness ==
    /\ mPhase = "done"
    /\ mJunk = <<>>
    /\ \E i \in 1..Len(mCaseLog) :
          /\ mCaseLog[i].outcome \in Malformed
          /\ mCaseLog[i].junk = 0
          /\ i < Len(mCaseLog)
          /\ mCaseLog[i + 1].term = mCaseLog[i].term
          /\ mCaseLog[i + 1].outcome = "read"
    /\ mTasks # <<>>

(***************************************************************************)
(* Claims on the ingested-id set of src/ingest/helpers.py (SpecIncr).      *)
(***************************************************************************)
\* C26: a run whose listing of the raw store failed issues no remote fetch:
\* neither the full case nor any oral argument is requested.
C26_ListFailureIsFatal ==
    ~hListOk => (~hCaseOk /\ hFetched = {})

(***************************************************************************)
(* Claim on the keys the pool of src/ingest/main.py writes (SpecMain).     *)
(***************************************************************************)
\* the key process_oa writes for task t
TaskKey(t) == OAKey(mTasks[t].oa.id, mTs)

\* C27: no two work units of one run that reached the pool and got past the
\* test of their entry write the same raw-store key.
C27_NoTwoWritersOnOneKey ==
    \A t, u \in 1..Len(mFut) :
        (/\ t # u
         /\ mFut[t] \in {"running", "size"}
         /\ mFut[u] \in {"running", "size"}
         /\ Truthy(mTasks[t].oa.id) /\ mTasks[t].oa.href
         /\ Truthy(mTasks[u].oa.id) /\ mTasks[u].oa.href)
        => TaskKey(t) # TaskKey(u)

C29_UploadedIdsRecognised ==
    (sPc = "exited" /\ sExit = 0 /\ StoredOAs # {}) =>
        \A id \in 1..MaxOAs : id \in SvcExistingOAIds(SvcStoreKeys)

(***************************************************************************)
(* Claim on the diff statistics of process_case (SpecIncr).                *)
(***************************************************************************)
\* C30: for a case that was read and has a non-empty oral_argument_audio
\* list, checked is the number of list entries, checked = existing + new,
\* and the number of returned tasks is new.
C30_DiffStatistics ==
    (hCaseOk /\ hListing # <<>>) =>
        /\ hStats.checked = Len(hListing)
        /\ hStats.checked = hStats.existing + hStats.new
        /\ Len(hTasks) = hStats.new

\* one oral argument with id 42 against an empty index: new = 1,
\* existing = 0, one task
C30_Witness ==
    /\ hCaseOk
    /\ hListing = <<[id |-> PyInt(42), href |-> TRUE]>>
    /\ hExisting = {}
    /\ hStats = [checked |-> 1, existing |-> 0, new |-> 1]
    /\ Len(hTasks) = 1

(***************************************************************************)
(* Claims on process_transcript_with_chunking and process_key (SpecKey).   *)
(***************************************************************************)
\* C31: when the shutdown test after insert_oa_text_data finds the flag set,
\* so that the well-formed document is left with InterruptedError and the
\* call returns, no copy of the document is added under junk/.
C31_InterruptionIsNotJunk ==
    [][(pPc = "embed" /\ pShutdown /\ pPc' = "idle") => pJunk' = pJunk]_vars

(***************************************************************************)
(* Claims on the summary and exit status of src/transformers/main.py       *)
(* (SpecXf).                                                               *)
(***************************************************************************)
\* C32: when an interrupted run has exited, processed_count is the number of
\* keys whose process_key call returned a successful result (stated for the
\* builds in which the timeout of as_completed is caught by the loop).
C32_ProcessedCountOfInterruptedRun ==
    (xPc = "exited" /\ xSignal # 0 /\ xAlias) =>
        xCount.processed = Cardinality({ k \in AllKeys : xFut[k] = "ok" })

\* C33: the process exits with the interrupted status 130 only if a
\* termination signal was received during the run.
C33_InterruptedStatusImpliesSignal ==
    (xPc = "exited" /\ xExit = 130) => xSignal # 0

\* the ordinal of the section the item at position j of a flattened sections
\* list belongs to
SectionOf(items, j) == Cardinality({ i \in 1..j : items[i].t = "section" }) - 1

\* the ordinals of the sections that hold a kept text block
KeptSections(items) ==
    { SectionOf(items, j) :
        j \in { i \in 1..Len(items) : items[i].t # "section" /\ KeepsBlock(items[i]) } }

\* C34: the section chunks process_transcript_with_chunking builds for a
\* document with N kept utterances, as they stand after the section loop, have
\* start <= end and utterance_count = end - start + 1, the first starts at 0,
\* each next one starts at the end of the one before plus 1, the last ends at
\* N - 1, and the section ids are, in order, the ordinals of the sections that
\* hold a kept utterance.
C34_ChunkRangesPartition ==
    (pPc = "embed" /\ pChunks # <<>>) =>
        LET N == Len(KeptTexts(pData.sections))
            n == Len(pChunks)
        IN /\ \A i \in 1..n :
                 /\ pChunks[i].start_utterance_index <= pChunks[i].end_utterance_index
                 /\ pChunks[i].utterance_count =
                        pChunks[i].end_utterance_index - pChunks[i].start_utterance_index + 1
           /\ pChunks[1].start_utterance_index = 0
           /\ \A i \in 1..(n - 1) :
                 /\ pChunks[i + 1].start_utterance_index = pChunks[i].end_utterance_index + 1
                 /\ pChunks[i].section_id < pChunks[i + 1].section_id
           /\ pChunks[n].end_utterance_index = N - 1
           /\ { pChunks[i].section_id : i \in 1..n } = KeptSections(pData.sections)

\* a section without a kept utterance comes before a section with two: the
\* only chunk carries the ordinal 1 and the range 0..1
C34_Witness ==
    /\ pPc = "embed"
    /\ Len(pChunks) = 1
    /\ pChunks[1].section_id = 1
    /\ pChunks[1].start_utterance_index = 0
    /\ pChunks[1].end_utterance_index = 1

\* C35: in every state of the transform pass, if document_chunk_embeddings
\* holds a row for the document then oa_text holds the row of every kept
\* utterance of the document.
C35_UtterancesBeforeChunks ==
    pChunkRows # <<>> =>
        LET kept == KeptTexts(pData.sections)
            case_id == CaseIdOfKey(PKey)
        IN \A k \in 1..Len(kept) :
              \E j \in 1..Len(pOaText) :
                  /\ pOaText[j].case_id = case_id
                  /\ pOaText[j].utterance_index = k - 1
                  /\ pOaText[j].text = kept[k]

\* the chunk rows of a first pass are in the table and a later pass of the
\* same document was interrupted
C35_Witness ==
    /\ pChunkRows # <<>>
    /\ Len(pResults) = 2
    /\ pResults[2] = "int"
    /\ pOaText # <<>>

(***************************************************************************)
(* Claim on the case counters of src/ingest/main.py (SpecMain).            *)
(***************************************************************************)
\* the cases of the enumeration so far that took the branch of the given
\* junk contexts
CasesJunkedAs(contexts) ==
    Cardinality({ i \in 1..Len(mCaseLog) : mCaseLog[i].outcome \in contexts })

\* C36: after any prefix of the enumeration every case counted in
\* cases_total is counted in exactly one of cases_with_oa and cases_skipped,
\* and cases_with_docket is cases_total minus the cases junked as
\* non_dict_case or missing_docket_number.
C36_CaseCounters ==
    /\ mCount.cases_total = Len(mCaseLog)
    /\ mCount.cases_total = mCount.cases_with_oa + mCount.cases_skipped
    /\ mCount.cases_with_oa =
           Cardinality({ i \in 1..Len(mCaseLog) :
                           /\ mCaseLog[i].outcome = "read"
                           /\ mCorpus[mCaseLog[i].term][mCaseLog[i].pos].oas # <<>> })
    /\ mCount.cases_with_docket =
           mCount.cases_total - CasesJunkedAs({"non_dict_case", "missing_docket_number"})

\* a case whose processing raised, then a case that is not a dict
C36_Witness ==
    /\ Len(mCaseLog) = 2
    /\ mCaseLog[1].outcome = "process_case_exception"
    /\ mCaseLog[2].outcome = "non_dict_case"
    /\ mCount = [cases_total |-> 2, cases_with_docket |-> 1,
                 cases_with_oa |-> 0, cases_skipped |-> 2]

(***************************************************************************)
(* Claim on the skip test of src/oyez.py (SpecOyez).                       *)
(***************************************************************************)
\* C37: every file of data/case/full and data/oa that a run found at its
\* start, and therefore skips, holds the completely fetched document.
C37_ExistingFileIsComplete ==
    \A f \in OyezPaths :
        (Last(Split(f, "/")) \in oExistingFulls \cup oExistingOas) =>
            oFiles[f] = "complete"

====
